---- MODULE Spec2Model ----
(***************************************************************************)
(* tornado.websocket: the RFC 6455 protocol engine (WebSocketProtocol13),  *)
(* its handler (WebSocketHandler) and client connection                    *)
(* (WebSocketClientConnection), as a state machine over one upgraded       *)
(* connection, from the handshake of either side to the close callback;    *)
(* and tornado.locks: Semaphore, BoundedSemaphore, Lock and Condition, as  *)
(* a state machine over one synchronisation object.                        *)
(*                                                                         *)
(* Bytes are integers 0..255, byte strings are sequences of bytes, unicode *)
(* strings are sequences of code points.                                   *)
(***************************************************************************)
EXTENDS Integers, Sequences, FiniteSets, TLC

\* ------------------------------------------------------------------ bounds
\* Frames (headers) the peer sends on one connection.
MaxFrames == 3

\* Frames the peer sends on one connection when its bytes are read one read at
\* a time.
MaxPipelineFrames == 2

\* Frames the server sends to one client connection, and calls of
\* read_message on it.
MaxClientFrames == 3
MaxReads == 4

\* Calls of acquire or wait on one synchronisation object, the counter of a
\* semaphore, and the initial value of a semaphore.
MaxWaiters == 4
MaxValue == 2

\* --------------------------------------------------------- program constants
FIN == 128
RSV1 == 64
RSV2 == 32
RSV3 == 16
RSV_MASK == RSV1 + RSV2 + RSV3
OPCODE_MASK == 15
\* "normal closure", the default status code of close(reason=...)
NormalClosure == 1000
\* Seconds a closing engine waits for the peer's close frame.
GracePeriod == 5

\* Python's None, for integer-valued and for string-valued attributes.
None == 0 - 1
NoneBytes == << None >>

\* ------------------------------------------------------------------ bit ops
RECURSIVE BitAnd(_, _)
BitAnd(a, b) ==
    IF a = 0 \/ b = 0 THEN 0
    ELSE (a % 2) * (b % 2) + 2 * BitAnd(a \div 2, b \div 2)

RECURSIVE BitXor(_, _)
BitXor(a, b) ==
    IF a = 0 THEN b
    ELSE IF b = 0 THEN a
    ELSE ((a + b) % 2) + 2 * BitXor(a \div 2, b \div 2)

\* struct.pack('>H', n) and struct.unpack('>H', b)
PackH(n) == << n \div 256, n % 256 >>
UnpackH(b) == b[1] * 256 + b[2]
\* struct.pack("!Q", n) for n < 2^32
PackQ(n) == << 0, 0, 0, 0 >> \o PackH(n \div 65536) \o PackH(n % 65536)

\* struct.unpack('!Q', b): 8 bytes, big endian
RECURSIVE UnpackBE(_)
UnpackBE(b) ==
    IF b = << >> THEN 0
    ELSE UnpackBE(SubSeq(b, 1, Len(b) - 1)) * 256 + b[Len(b)]

\* data[i:] of Python, for a 0-based i
From(b, i) == SubSeq(b, i + 1, Len(b))

\* tornado.util._websocket_mask: each byte xor the key byte at its index mod 4.
websocket_mask(mask, data) ==
    [i \in 1..Len(data) |-> BitXor(data[i], mask[((i - 1) % 4) + 1])]

\* ------------------------------------------------------------------- UTF-8
IsCont(x) == x >= 128 /\ x <= 191

\* The length of the well-formed UTF-8 sequence that starts b, 0 when b starts
\* with none (bytes.decode("utf-8") then raises UnicodeDecodeError).
Utf8Head(b) ==
    LET n == Len(b)
        b1 == b[1]
    IN  IF b1 < 128 THEN 1
        ELSE IF b1 >= 194 /\ b1 <= 223
            THEN IF n >= 2 /\ IsCont(b[2]) THEN 2 ELSE 0
        ELSE IF b1 >= 224 /\ b1 <= 239
            THEN IF /\ n >= 3
                    /\ IsCont(b[2])
                    /\ IsCont(b[3])
                    /\ (b1 = 224 => b[2] >= 160)
                    /\ (b1 = 237 => b[2] <= 159)
                 THEN 3 ELSE 0
        ELSE IF b1 >= 240 /\ b1 <= 244
            THEN IF /\ n >= 4
                    /\ IsCont(b[2])
                    /\ IsCont(b[3])
                    /\ IsCont(b[4])
                    /\ (b1 = 240 => b[2] >= 144)
                    /\ (b1 = 244 => b[2] <= 143)
                 THEN 4 ELSE 0
        ELSE 0

RECURSIVE Utf8Valid(_)
Utf8Valid(b) ==
    IF b = << >> THEN TRUE
    ELSE LET k == Utf8Head(b)
         IN  k > 0 /\ Utf8Valid(From(b, k))

\* The code point of the k-byte sequence that starts b.
CodePoint(b, k) ==
    IF k = 1 THEN b[1]
    ELSE IF k = 2 THEN (b[1] - 192) * 64 + (b[2] - 128)
    ELSE IF k = 3 THEN (b[1] - 224) * 4096 + (b[2] - 128) * 64 + (b[3] - 128)
    ELSE (b[1] - 240) * 262144 + (b[2] - 128) * 4096
         + (b[3] - 128) * 64 + (b[4] - 128)

\* bytes.decode("utf-8") of a well-formed byte string.
RECURSIVE Utf8Decode(_)
Utf8Decode(b) ==
    IF b = << >> THEN << >>
    ELSE LET k == Utf8Head(b)
         IN  << CodePoint(b, k) >> \o Utf8Decode(From(b, k))

\* str.encode("utf-8"), for code points below U+10000 outside the surrogates.
RECURSIVE Utf8Encode(_)
Utf8Encode(s) ==
    IF s = << >> THEN << >>
    ELSE LET c == s[1]
             enc == IF c < 128 THEN << c >>
                    ELSE IF c < 2048
                        THEN << 192 + (c \div 64), 128 + (c % 64) >>
                    ELSE << 224 + (c \div 4096), 128 + ((c \div 64) % 64),
                            128 + (c % 64) >>
         IN  enc \o Utf8Encode(Tail(s))

\* escape.utf8: a byte string or None is returned as it is, a unicode string is
\* encoded.  The model passes unicode strings only.
utf8(value) == Utf8Encode(value)

\* ------------------------------------------------------------ DEFLATE
\* What the peer's messages were compressed from.  Each message is inflated by
\* a fresh zlib object (the extension was agreed with no_context_takeover for
\* the peer's side), over data + 00 00 ff ff.  On the byte strings this model
\* builds zlib behaves as follows: the empty string is the empty stored block;
\* 03 is a final fixed-Huffman block that ends at once (what follows the final
\* block is ignored); 61 is a final stored block, well-formed only when the
\* trailer supplies its length; 4a 04 00 is the literal "a"; everything else
\* raises zlib.error.
InflateOk(data) ==
    \/ data = << >>
    \/ data[1] = 3
    \/ data = << 97 >>
    \/ data = << 74, 4, 0 >>

decompress(data) == IF data = << 74, 4, 0 >> THEN << 97 >> ELSE << >>

\* What this side's messages are compressed to: each message by a fresh zlib
\* object at level 6 (server_no_context_takeover and client_no_context_takeover
\* were agreed), flushed with Z_SYNC_FLUSH, less the trailing 00 00 ff ff.  The
\* DEFLATE streams zlib produces for the messages of this model: "", "a", the
\* two bytes c3 a9 and the two bytes 03 e8.
compress(data) ==
    CASE data = << >> -> << 0 >>
      [] data = << 97 >> -> << 74, 4, 0 >>
      [] data = << 195, 169 >> -> << 58, 188, 18, 0 >>
      [] data = << 3, 232 >> -> << 98, 126, 1, 0 >>

\* ------------------------------------------------------------------ state
VARIABLES
    \* WebSocketProtocol13
    mask_outgoing, decompressor, client_terminated, server_terminated,
    final_frame, frame_opcode, frame_opcode_is_control, masked_frame,
    frame_mask, frame_length, frame_compressed,
    fragmented_message_buffer, fragmented_message_opcode, waiting,
    \* IOStream: closed(), the registered read callback, whether the close
    \* callback has run, the reads issued and not completed, and the frame
    \* whose bytes the reads of the pipeline consume
    stream_closed, read_callback, close_callback_run, reads, wire,
    \* IOLoop: the scheduled timeouts, and how many were ever added
    timeouts, timeouts_added,
    \* WebSocketHandler / WebSocketClientConnection
    ws_connection, close_code, close_reason, on_close_called,
    \* the handshake: the request with what the handler answers about it
    \* (check_origin, get_compression_options), the status of the HTTP response
    \* written, and whether the stream has been detached from the HTTP
    \* connection (handler.stream is set)
    request, response, detached,
    \* WebSocketClientConnection: whether an on_message_callback was given,
    \* the connect future, the pending read future (an index into futures, 0
    \* for None), the read queue, and the server's answer to the handshake
    on_message_callback, connect_future, read_future, read_queue,
    server_response,
    \* the futures read_message has returned, in the order of the calls, and
    \* the messages handed to on_message of a connection without callback
    futures, arrived,
    \* history: the effects of the last step in order, the headers received,
    \* the frames received since the
    \* current message began, the on_message calls made since then, and what
    \* on_close saw
    acts, nrecv, cur, delivered, on_close_seen,
    \* a stream whose other end is an engine of the same class: the bytes it
    \* wrote that no read has taken yet, the write in flight (at most one)
    \* and the number of bytes the pending read asked for
    inbound, sent, read_size,
    \* locks.py: the class of the one synchronisation object, its deque of
    \* waiters (indices into waiter_futures), its count of timeouts since the
    \* last clean-up, its counter and the counter it began with
    kind, _waiters, _timeouts, _value, _initial_value,
    \* the futures acquire and wait have returned, in the order of the calls;
    \* the calls of release that returned; the last call or timer
    waiter_futures, releases, lock_act,
    \* httpclient.py: the AsyncHTTPClient instances made so far, in the order
    \* they were made; the class's dictionary from IOLoop to instance; the
    \* instance the last construction without force_instance returned on each
    \* IOLoop; the last call made
    clients, _async_client_dict, constructed, client_act,
    \* web.py: the fields of the one RequestHandler; the calls it has made on
    \* request.connection and on the request, in order; the last call made on
    \* the handler, what it raised and how many calls there have been
    handler, http_connection, handler_act,
    \* httpserver.py: the _HTTPRequestContext of the one connection; the
    \* server's xheaders option; where the connection is in its request
    \* ("idle", "request", "closed", or "failed" after the delegate raised);
    \* what the last two requests carried and were given
    context, xheaders, serving, seen,
    \* hashlib and base64: the Sec-WebSocket-Accept values of the keys of the
    \* model, computed once when the process starts
    accept_values

\* The variables of a connection, and those of a synchronisation object.
conn_vars ==
    << mask_outgoing, decompressor, client_terminated, server_terminated,
       final_frame, frame_opcode, frame_opcode_is_control, masked_frame,
       frame_mask, frame_length, frame_compressed,
       fragmented_message_buffer, fragmented_message_opcode, waiting,
       stream_closed, read_callback, close_callback_run, reads, wire,
       timeouts, timeouts_added,
       ws_connection, close_code, close_reason, on_close_called,
       request, response, detached,
       on_message_callback, connect_future, read_future, read_queue,
       server_response, futures, arrived,
       acts, nrecv, cur, delivered, on_close_seen >>

lock_vars ==
    << kind, _waiters, _timeouts, _value, _initial_value,
       waiter_futures, releases, lock_act >>

loop_vars == << inbound, sent, read_size >>

client_vars == << clients, _async_client_dict, constructed, client_act >>

handler_vars == << handler, http_connection, handler_act >>

context_vars == << context, xheaders, serving, seen >>

web_vars == << client_vars, handler_vars, context_vars >>

digest_vars == << accept_values >>

vars == << conn_vars, lock_vars, loop_vars, web_vars, digest_vars >>

\* What os.urandom(4) returns to a step that draws no key of its own.
Urandom0 == << 18, 52, 86, 120 >>

\* The state as one record, at the start of a step: no effect yet, no
\* exception raised, and the four bytes os.urandom will return.
Cur ==
    [ client_terminated |-> client_terminated,
      server_terminated |-> server_terminated,
      final_frame |-> final_frame,
      frame_opcode |-> frame_opcode,
      frame_opcode_is_control |-> frame_opcode_is_control,
      masked_frame |-> masked_frame,
      frame_mask |-> frame_mask,
      frame_length |-> frame_length,
      frame_compressed |-> frame_compressed,
      fragmented_message_buffer |-> fragmented_message_buffer,
      fragmented_message_opcode |-> fragmented_message_opcode,
      waiting |-> waiting,
      stream_closed |-> stream_closed,
      read_callback |-> read_callback,
      close_callback_run |-> close_callback_run,
      reads |-> reads,
      wire |-> wire,
      timeouts |-> timeouts,
      timeouts_added |-> timeouts_added,
      ws_connection |-> ws_connection,
      close_code |-> close_code,
      close_reason |-> close_reason,
      on_close_called |-> on_close_called,
      response |-> response,
      detached |-> detached,
      decompressor |-> decompressor,
      connect_future |-> connect_future,
      read_future |-> read_future,
      read_queue |-> read_queue,
      futures |-> futures,
      arrived |-> arrived,
      acts |-> << >>,
      nrecv |-> nrecv,
      cur |-> cur,
      delivered |-> delivered,
      on_close_seen |-> on_close_seen,
      exc |-> FALSE,
      urandom |-> Urandom0 ]

\* The state a step leaves, but for what only the handshake sets.
CommitConnection(s) ==
    /\ client_terminated' = s.client_terminated
    /\ server_terminated' = s.server_terminated
    /\ final_frame' = s.final_frame
    /\ frame_opcode' = s.frame_opcode
    /\ frame_opcode_is_control' = s.frame_opcode_is_control
    /\ masked_frame' = s.masked_frame
    /\ frame_mask' = s.frame_mask
    /\ frame_length' = s.frame_length
    /\ frame_compressed' = s.frame_compressed
    /\ fragmented_message_buffer' = s.fragmented_message_buffer
    /\ fragmented_message_opcode' = s.fragmented_message_opcode
    /\ waiting' = s.waiting
    /\ stream_closed' = s.stream_closed
    /\ read_callback' = s.read_callback
    /\ close_callback_run' = s.close_callback_run
    /\ reads' = s.reads
    /\ wire' = s.wire
    /\ timeouts' = s.timeouts
    /\ timeouts_added' = s.timeouts_added
    /\ ws_connection' = s.ws_connection
    /\ close_code' = s.close_code
    /\ close_reason' = s.close_reason
    /\ on_close_called' = s.on_close_called
    /\ acts' = s.acts
    /\ nrecv' = s.nrecv
    /\ cur' = s.cur
    /\ delivered' = s.delivered
    /\ on_close_seen' = s.on_close_seen
    /\ response' = s.response
    /\ detached' = s.detached
    /\ connect_future' = s.connect_future
    /\ read_future' = s.read_future
    /\ read_queue' = s.read_queue
    /\ futures' = s.futures
    /\ arrived' = s.arrived
    /\ UNCHANGED << mask_outgoing, request, on_message_callback >>
    /\ UNCHANGED lock_vars
    /\ UNCHANGED web_vars
    /\ UNCHANGED digest_vars

\* The state a step leaves on a stream whose other end is the network.
CommitState(s) == CommitConnection(s) /\ UNCHANGED loop_vars

\* The state a step after the handshake leaves.
Commit(s) == CommitState(s) /\ UNCHANGED << decompressor, server_response >>

\* ---------------------------------------------------------------- effects
\* One effect of a step: a handler callback, a frame written, a read issued,
\* the stream closed, a timeout added or removed, an exception that escapes.
Eff(a, op, data) ==
    [a |-> a, op |-> op, data |-> data, fin |-> None, flags |-> None,
     frame |-> << >>]

Do(s, e) == [s EXCEPT !.acts = Append(@, e)]

\* IOStream.close(): idempotent, drops the pending read.
stream_close(s) ==
    IF s.stream_closed THEN s
    ELSE Do([s EXCEPT !.stream_closed = TRUE, !.read_callback = "none",
                      !.reads = 0],
            Eff("stream.close", None, << >>))

\* An exception leaves the running read callback: nothing after it runs, and
\* the IOStream that ran the callback logs it and closes itself.
Raise(s) == [stream_close(Do(s, Eff("raise", None, << >>))) EXCEPT !.exc = TRUE]

\* IOLoop.add_timeout / remove_timeout (a no-op for a timeout that has fired).
add_timeout(s, delay) ==
    Do([s EXCEPT !.timeouts_added = @ + 1,
                 !.timeouts = @ \cup {s.timeouts_added + 1},
                 !.waiting = s.timeouts_added + 1],
       Eff("add_timeout", delay, << >>))

remove_timeout(s, handle) ==
    Do([s EXCEPT !.timeouts = @ \ {handle}], Eff("remove_timeout", None, << >>))

\* ------------------------------------------------ WebSocketProtocol(13)
RECURSIVE _abort(_), close(_, _, _), _write_frame(_, _, _, _, _)

\* _write_frame that sends the key and leaves the payload as it is.
_write_frame_unmasked(s, fin, opcode, data, flags) ==
    LET finbit == IF fin THEN FIN ELSE 0
        l == Len(data)
        mask_bit == IF mask_outgoing THEN 128 ELSE 0
        head == IF l < 126 THEN << finbit + opcode + flags, l + mask_bit >>
                ELSE IF l <= 65535
                THEN << finbit + opcode + flags, 126 + mask_bit >> \o PackH(l)
                ELSE << finbit + opcode + flags, 127 + mask_bit >> \o PackQ(l)
        body == IF mask_outgoing THEN s.urandom \o data ELSE data
    IN  IF s.stream_closed THEN _abort(s)
        ELSE Do(s, [a |-> "write", op |-> opcode, data |-> data,
                    fin |-> IF fin THEN 1 ELSE 0, flags |-> flags,
                    frame |-> head \o body])

\* _write_frame: one frame to the stream, as the bytes passed to
\* stream.write; a closed stream raises StreamClosedError, which aborts.
_write_frame(s, fin, opcode, data, flags) ==
    LET finbit == IF fin THEN FIN ELSE 0
        l == Len(data)
        mask_bit == IF mask_outgoing THEN 128 ELSE 0
        head == IF l < 126 THEN << finbit + opcode + flags, l + mask_bit >>
                ELSE IF l <= 65535
                THEN << finbit + opcode + flags, 126 + mask_bit >> \o PackH(l)
                ELSE << finbit + opcode + flags, 127 + mask_bit >> \o PackQ(l)
        body == IF mask_outgoing
                THEN s.urandom \o websocket_mask(s.urandom, data)
                ELSE data
    IN  IF s.stream_closed THEN _abort(s)
        ELSE Do(s, [a |-> "write", op |-> opcode, data |-> data,
                    fin |-> IF fin THEN 1 ELSE 0, flags |-> flags,
                    frame |-> head \o body])

\* close that writes its close frame and adds its timeout whatever was done
\* before.
close_again(s, code, reason) ==
    LET code1 == IF code = None /\ reason # NoneBytes THEN NormalClosure ELSE code
        data0 == IF code1 = None THEN << >> ELSE PackH(code1)
        close_data == IF reason # NoneBytes THEN data0 \o utf8(reason) ELSE data0
        s1 == [(IF s.stream_closed THEN s
                ELSE _write_frame(s, TRUE, 8, close_data, 0))
               EXCEPT !.server_terminated = TRUE]
    IN  IF s1.client_terminated
        THEN stream_close(IF s1.waiting # None
                          THEN [remove_timeout(s1, s1.waiting)
                                EXCEPT !.waiting = None]
                          ELSE s1)
        ELSE add_timeout(s1, GracePeriod)

\* close that sends the close frame and then does not wait: no timeout is
\* added.
close_no_timer(s, code, reason) ==
    LET code1 == IF code = None /\ reason # NoneBytes THEN NormalClosure ELSE code
        data0 == IF code1 = None THEN << >> ELSE PackH(code1)
        close_data == IF reason # NoneBytes THEN data0 \o utf8(reason) ELSE data0
        s1 == IF s.server_terminated THEN s
              ELSE [(IF s.stream_closed THEN s
                     ELSE _write_frame(s, TRUE, 8, close_data, 0))
                    EXCEPT !.server_terminated = TRUE]
    IN  IF s1.client_terminated
        THEN stream_close(IF s1.waiting # None
                          THEN [remove_timeout(s1, s1.waiting)
                                EXCEPT !.waiting = None]
                          ELSE s1)
        ELSE s1

\* The end of close, once the close frame is out: the stream is closed if the
\* peer has closed as well, else the connection waits for the peer's close
\* frame under one timeout.
AwaitClose(s1) ==
    IF s1.client_terminated
    THEN stream_close(IF s1.waiting # None
                      THEN [remove_timeout(s1, s1.waiting)
                            EXCEPT !.waiting = None]
                      ELSE s1)
    ELSE IF s1.waiting = None THEN add_timeout(s1, GracePeriod)
    ELSE s1

close(s, code, reason) ==
    LET code1 == IF code = None /\ reason # NoneBytes THEN NormalClosure ELSE code
        data0 == IF code1 = None THEN << >> ELSE PackH(code1)
        close_data == IF reason # NoneBytes THEN data0 \o utf8(reason) ELSE data0
    IN  AwaitClose(IF s.server_terminated THEN s
                   ELSE [(IF s.stream_closed THEN s
                          ELSE _write_frame(s, TRUE, 8, close_data, 0))
                         EXCEPT !.server_terminated = TRUE])

_abort(s) ==
    close(stream_close([s EXCEPT !.client_terminated = TRUE,
                                 !.server_terminated = TRUE]),
          None, NoneBytes)

\* A future: pending, or resolved with a value.
Pending == [ done |-> FALSE, value |-> << >> ]
Resolved(v) == [ done |-> TRUE, value |-> v ]

\* WebSocketClientConnection.on_message: the callback if one was given, else
\* the pending read future, else the queue.
conn_on_message(s, message) ==
    IF on_message_callback THEN s
    ELSE IF s.read_future # 0
    THEN [s EXCEPT !.futures[s.read_future] = Resolved(message),
                   !.read_future = 0,
                   !.arrived = Append(@, message)]
    ELSE [s EXCEPT !.read_queue = Append(@, message),
                   !.arrived = Append(@, message)]

\* _run_callback that logs the exception of the callback and goes on.
_run_callback_no_abort(s, e, raises) ==
    LET s0 == [Do(s, e) EXCEPT
                 !.delivered = IF e.a = "on_message" THEN Append(@, e) ELSE @]
        s1 == IF mask_outgoing /\ e.a = "on_message"
              THEN conn_on_message(s0, e.data) ELSE s0
        thrown == raises /\ ~(mask_outgoing /\ e.a = "on_message"
                                /\ ~on_message_callback)
    IN  IF thrown THEN Do(s1, Eff("app_log.error", None, << >>)) ELSE s1

\* _run_callback: the handler's callback runs; if it raises, the exception is
\* logged and the connection aborted.
_run_callback(s, e, raises) ==
    LET s0 == [Do(s, e) EXCEPT
                 !.delivered = IF e.a = "on_message" THEN Append(@, e) ELSE @]
        s1 == IF mask_outgoing /\ e.a = "on_message"
              THEN conn_on_message(s0, e.data) ELSE s0
        thrown == raises /\ ~(mask_outgoing /\ e.a = "on_message"
                                /\ ~on_message_callback)
    IN  IF thrown THEN _abort(Do(s1, Eff("app_log.error", None, << >>))) ELSE s1

\* stream.read_bytes(n, callback) under "except StreamClosedError: _abort()"
read_bytes(s, n, callback) ==
    IF s.stream_closed THEN _abort(s)
    ELSE Do([s EXCEPT !.read_callback = callback, !.reads = @ + 1],
            Eff("read", n, << >>))

\* A read completes: the stream forgets the read and runs its callback.
read_done(s) == [s EXCEPT !.read_callback = "none", !.reads = @ - 1]

\* _create_compressors makes the compressor and the decompressor together.
compressor == decompressor

\* write_message that compresses and leaves RSV1 clear.
write_message_unflagged(s, message, binary) ==
    LET opcode == IF binary THEN 2 ELSE 1
        bytes == IF message.t = "str" THEN utf8(message.v) ELSE message.v
    IN  IF compressor
        THEN _write_frame(s, TRUE, opcode, compress(bytes), 0)
        ELSE _write_frame(s, TRUE, opcode, bytes, 0)

\* write_message: a message is a unicode string (its code points) or a byte
\* string; utf8 encodes the first and returns the second as it is.
write_message(s, message, binary) ==
    LET opcode == IF binary THEN 2 ELSE 1
        bytes == IF message.t = "str" THEN utf8(message.v) ELSE message.v
    IN  IF compressor
        THEN _write_frame(s, TRUE, opcode, compress(bytes), RSV1)
        ELSE _write_frame(s, TRUE, opcode, bytes, 0)

write_ping(s, data) == _write_frame(s, TRUE, 9, data, 0)

\* _receive_frame that asks for the header twice.
_receive_frame_twice(s) ==
    read_bytes(read_bytes(s, 2, "_on_frame_start"), 2, "_on_frame_start")

_receive_frame(s) == read_bytes(s, 2, "_on_frame_start")

\* _handle_message that handles a close frame without marking the peer
\* terminated.
_handle_message_unmarked(s, opcode, data0, raises) ==
    IF s.client_terminated THEN s
    ELSE IF s.frame_compressed /\ ~InflateOk(data0) THEN Raise(s)
    ELSE
    LET data == IF s.frame_compressed THEN decompress(data0) ELSE data0
    IN  IF opcode = 1
        THEN IF ~Utf8Valid(data) THEN _abort(s)
             ELSE _run_callback(s, Eff("on_message", 1, Utf8Decode(data)), raises)
        ELSE IF opcode = 2
        THEN _run_callback(s, Eff("on_message", 2, data), raises)
        ELSE IF opcode = 8
        THEN LET s1 == [s EXCEPT !.close_code = IF Len(data) >= 2
                                                THEN UnpackH(data) ELSE @]
             IN  IF Len(data) > 2 /\ ~Utf8Valid(From(data, 2)) THEN Raise(s1)
                 ELSE close([s1 EXCEPT !.close_reason =
                                IF Len(data) > 2
                                THEN Utf8Decode(From(data, 2)) ELSE @],
                            s1.close_code, NoneBytes)
        ELSE IF opcode = 9
        THEN _write_frame(s, TRUE, 10, data, 0)
        ELSE IF opcode = 10
        THEN _run_callback(s, Eff("on_pong", 10, data), raises)
        ELSE _abort(s)

_handle_message(s, opcode, data0, raises) ==
    IF s.client_terminated THEN s
    ELSE IF s.frame_compressed /\ ~InflateOk(data0) THEN Raise(s)
    ELSE
    LET data == IF s.frame_compressed THEN decompress(data0) ELSE data0
    IN  IF opcode = 1
        THEN IF ~Utf8Valid(data) THEN _abort(s)
             ELSE _run_callback(s, Eff("on_message", 1, Utf8Decode(data)), raises)
        ELSE IF opcode = 2
        THEN _run_callback(s, Eff("on_message", 2, data), raises)
        ELSE IF opcode = 8
        THEN LET s1 == [s EXCEPT !.client_terminated = TRUE,
                                 !.close_code = IF Len(data) >= 2
                                                THEN UnpackH(data) ELSE @]
             IN  IF Len(data) > 2 /\ ~Utf8Valid(From(data, 2)) THEN Raise(s1)
                 ELSE close([s1 EXCEPT !.close_reason =
                                IF Len(data) > 2
                                THEN Utf8Decode(From(data, 2)) ELSE @],
                            s1.close_code, NoneBytes)
        ELSE IF opcode = 9
        THEN _write_frame(s, TRUE, 10, data, 0)
        ELSE IF opcode = 10
        THEN _run_callback(s, Eff("on_pong", 10, data), raises)
        ELSE _abort(s)

\* ------------------------------------------------- the frame read pipeline
\* _on_frame_start without the length rule of control frames.
_on_frame_start_any_length(s, data) ==
    LET header == data[1]
        opcode == BitAnd(header, OPCODE_MASK)
        reserved_bits == BitAnd(header, RSV_MASK)
        ext == decompressor /\ opcode # 0
        s1 == [s EXCEPT !.final_frame = BitAnd(header, FIN),
                        !.frame_opcode = opcode,
                        !.frame_opcode_is_control = BitAnd(opcode, 8),
                        !.frame_compressed =
                            IF ext THEN BitAnd(reserved_bits, RSV1) # 0 ELSE @]
        reserved == IF ext THEN BitAnd(reserved_bits, 255 - RSV1)
                    ELSE reserved_bits
        s2 == [s1 EXCEPT !.masked_frame = BitAnd(data[2], 128) # 0]
        payloadlen == BitAnd(data[2], 127)
        s3 == [s2 EXCEPT !.frame_length = payloadlen]
    IN  IF reserved # 0 THEN _abort(s1)
        ELSE IF payloadlen < 126
        THEN IF s3.masked_frame THEN read_bytes(s3, 4, "_on_masking_key")
             ELSE read_bytes(s3, s3.frame_length, "_on_frame_data")
        ELSE IF payloadlen = 126
        THEN read_bytes(s2, 2, "_on_frame_length_16")
        ELSE read_bytes(s2, 8, "_on_frame_length_64")

\* _on_frame_start that knows of RSV1 only: RSV2 and RSV3 pass.
_on_frame_start_deflate_only(s, data) ==
    LET header == data[1]
        opcode == BitAnd(header, OPCODE_MASK)
        reserved_bits == BitAnd(header, RSV_MASK)
        ext == decompressor /\ opcode # 0
        s1 == [s EXCEPT !.final_frame = BitAnd(header, FIN),
                        !.frame_opcode = opcode,
                        !.frame_opcode_is_control = BitAnd(opcode, 8),
                        !.frame_compressed =
                            IF ext THEN BitAnd(reserved_bits, RSV1) # 0 ELSE @]
        reserved == IF ext THEN BitAnd(reserved_bits, 255 - RSV1)
                    ELSE reserved_bits
        s2 == [s1 EXCEPT !.masked_frame = BitAnd(data[2], 128) # 0]
        payloadlen == BitAnd(data[2], 127)
        s3 == [s2 EXCEPT !.frame_length = payloadlen]
    IN  IF BitAnd(reserved, RSV1) # 0 THEN _abort(s1)
        ELSE IF s2.frame_opcode_is_control # 0 /\ payloadlen >= 126
        THEN _abort(s2)
        ELSE IF payloadlen < 126
        THEN IF s3.masked_frame THEN read_bytes(s3, 4, "_on_masking_key")
             ELSE read_bytes(s3, s3.frame_length, "_on_frame_data")
        ELSE IF payloadlen = 126
        THEN read_bytes(s2, 2, "_on_frame_length_16")
        ELSE read_bytes(s2, 8, "_on_frame_length_64")

_on_frame_start(s, data) ==
    LET header == data[1]
        opcode == BitAnd(header, OPCODE_MASK)
        reserved_bits == BitAnd(header, RSV_MASK)
        ext == decompressor /\ opcode # 0
        s1 == [s EXCEPT !.final_frame = BitAnd(header, FIN),
                        !.frame_opcode = opcode,
                        !.frame_opcode_is_control = BitAnd(opcode, 8),
                        !.frame_compressed =
                            IF ext THEN BitAnd(reserved_bits, RSV1) # 0 ELSE @]
        reserved == IF ext THEN BitAnd(reserved_bits, 255 - RSV1)
                    ELSE reserved_bits
        s2 == [s1 EXCEPT !.masked_frame = BitAnd(data[2], 128) # 0]
        payloadlen == BitAnd(data[2], 127)
        s3 == [s2 EXCEPT !.frame_length = payloadlen]
    IN  IF reserved # 0 THEN _abort(s1)
        ELSE IF s2.frame_opcode_is_control # 0 /\ payloadlen >= 126
        THEN _abort(s2)
        ELSE IF payloadlen < 126
        THEN IF s3.masked_frame THEN read_bytes(s3, 4, "_on_masking_key")
             ELSE read_bytes(s3, s3.frame_length, "_on_frame_data")
        ELSE IF payloadlen = 126
        THEN read_bytes(s2, 2, "_on_frame_length_16")
        ELSE read_bytes(s2, 8, "_on_frame_length_64")

\* _on_frame_length_16 and _on_frame_length_64, which differ in the width of
\* the length they unpack.
_on_frame_length(s, data) ==
    LET s1 == [s EXCEPT !.frame_length = UnpackBE(data)]
    IN  IF s1.masked_frame THEN read_bytes(s1, 4, "_on_masking_key")
        ELSE read_bytes(s1, s1.frame_length, "_on_frame_data")

_on_masking_key(s, data) ==
    LET s1 == [s EXCEPT !.frame_mask = data]
    IN  read_bytes(s1, s1.frame_length, "_on_masked_frame_data")

\* The end of _on_frame_data: dispatch a complete message, then read on.
ReadOn(s1) ==
    IF s1.exc THEN s1
    ELSE IF ~s1.client_terminated THEN _receive_frame(s1)
    ELSE s1

Dispatch(s, opcode, data, raises) ==
    ReadOn(IF s.final_frame # 0 THEN _handle_message(s, opcode, data, raises)
           ELSE s)

\* _on_frame_data with "+=" the wrong way round: the fragment is put before
\* the buffer.
_on_frame_data_prepend(s, data, raises) ==
    IF s.frame_opcode_is_control # 0
    THEN IF s.final_frame = 0 THEN _abort(s)
         ELSE Dispatch(s, s.frame_opcode, data, raises)
    ELSE IF s.frame_opcode = 0
    THEN IF s.fragmented_message_buffer = NoneBytes THEN _abort(s)
         ELSE LET s1 == [s EXCEPT !.fragmented_message_buffer = data \o @]
              IN  IF s1.final_frame # 0
                  THEN Dispatch([s1 EXCEPT !.fragmented_message_buffer = NoneBytes],
                                s1.fragmented_message_opcode,
                                s1.fragmented_message_buffer, raises)
                  ELSE Dispatch(s1, None, data, raises)
    ELSE IF s.fragmented_message_buffer # NoneBytes THEN _abort(s)
         ELSE IF s.final_frame # 0
         THEN Dispatch(s, s.frame_opcode, data, raises)
         ELSE Dispatch([s EXCEPT !.fragmented_message_opcode = s.frame_opcode,
                                 !.fragmented_message_buffer = data],
                       None, data, raises)

\* _on_frame_data without the two checks of the fragmentation state: a
\* continuation with nothing to continue begins a buffer, a new message
\* replaces the unfinished one.
_on_frame_data_lenient(s, data, raises) ==
    IF s.frame_opcode_is_control # 0
    THEN IF s.final_frame = 0 THEN _abort(s)
         ELSE Dispatch(s, s.frame_opcode, data, raises)
    ELSE IF s.frame_opcode = 0
    THEN LET s0 == IF s.fragmented_message_buffer = NoneBytes
                   THEN [s EXCEPT !.fragmented_message_buffer = << >>,
                                  !.fragmented_message_opcode = 2]
                   ELSE s
             s1 == [s0 EXCEPT !.fragmented_message_buffer = @ \o data]
         IN  IF s1.final_frame # 0
             THEN Dispatch([s1 EXCEPT !.fragmented_message_buffer = NoneBytes],
                           s1.fragmented_message_opcode,
                           s1.fragmented_message_buffer, raises)
             ELSE Dispatch(s1, None, data, raises)
    ELSE IF s.final_frame # 0
         THEN Dispatch(s, s.frame_opcode, data, raises)
         ELSE Dispatch([s EXCEPT !.fragmented_message_opcode = s.frame_opcode,
                                 !.fragmented_message_buffer = data],
                       None, data, raises)

_on_frame_data(s, data, raises) ==
    IF s.frame_opcode_is_control # 0
    THEN IF s.final_frame = 0 THEN _abort(s)
         ELSE Dispatch(s, s.frame_opcode, data, raises)
    ELSE IF s.frame_opcode = 0
    THEN IF s.fragmented_message_buffer = NoneBytes THEN _abort(s)
         ELSE LET s1 == [s EXCEPT !.fragmented_message_buffer = @ \o data]
              IN  IF s1.final_frame # 0
                  THEN Dispatch([s1 EXCEPT !.fragmented_message_buffer = NoneBytes],
                                s1.fragmented_message_opcode,
                                s1.fragmented_message_buffer, raises)
                  ELSE Dispatch(s1, None, data, raises)
    ELSE IF s.fragmented_message_buffer # NoneBytes THEN _abort(s)
         ELSE IF s.final_frame # 0
         THEN Dispatch(s, s.frame_opcode, data, raises)
         ELSE Dispatch([s EXCEPT !.fragmented_message_opcode = s.frame_opcode,
                                 !.fragmented_message_buffer = data],
                       None, data, raises)

_on_masked_frame_data(s, data, raises) ==
    _on_frame_data(s, websocket_mask(s.frame_mask, data), raises)

\* --------------------------------- WebSocketHandler, WebSocketClientConnection
\* WebSocketHandler.close and WebSocketClientConnection.close
handler_close(s, code, reason) ==
    IF s.ws_connection
    THEN [close(s, code, reason) EXCEPT !.ws_connection = FALSE]
    ELSE s

\* An exception raised to the application that made the call.
RaiseToCaller(s) == [Do(s, Eff("raise", None, << >>)) EXCEPT !.exc = TRUE]

\* WebSocketHandler.write_message raises WebSocketClosedError once the
\* connection is gone; WebSocketClientConnection.write_message finds protocol
\* None and raises AttributeError.
handler_write_message(s, message, binary) ==
    IF ~s.ws_connection THEN RaiseToCaller(s)
    ELSE write_message(s, message, binary)

\* WebSocketHandler.ping
ping(s, data) ==
    IF ~s.ws_connection THEN RaiseToCaller(s)
    ELSE write_ping(s, data)

\* on_connection_close that calls on_close only while the handler still has
\* its protocol.
on_connection_close_lazy(s) ==
    IF s.ws_connection
    THEN LET s1 == [_abort(s) EXCEPT !.ws_connection = FALSE]
         IN  IF ~s1.on_close_called
             THEN [Do(s1, Eff("on_close", None, << >>)) EXCEPT
                     !.on_close_called = TRUE,
                     !.on_close_seen = << s1.close_code, s1.close_reason >>]
             ELSE s1
    ELSE s

\* WebSocketHandler.on_connection_close, the stream's close callback
on_connection_close(s) ==
    LET s1 == IF s.ws_connection
              THEN [_abort(s) EXCEPT !.ws_connection = FALSE]
              ELSE s
    IN  IF ~s1.on_close_called
        THEN [Do(s1, Eff("on_close", None, << >>)) EXCEPT
                !.on_close_called = TRUE,
                !.on_close_seen = << s1.close_code, s1.close_reason >>]
        ELSE s1

\* read_message that takes the newest message of the queue.
read_message_newest(s) ==
    IF s.read_future # 0 THEN RaiseToCaller(s)
    ELSE IF s.read_queue # << >>
    THEN [s EXCEPT !.futures =
                      Append(@, Resolved(s.read_queue[Len(s.read_queue)])),
                   !.read_queue = SubSeq(@, 1, Len(@) - 1)]
    ELSE [s EXCEPT !.futures = Append(@, Pending),
                   !.read_future = Len(s.futures) + 1]

\* WebSocketClientConnection.read_message: the assert raises while a read is
\* pending; else a new future, resolved at once from the queue or left
\* pending.
read_message(s) ==
    IF s.read_future # 0 THEN RaiseToCaller(s)
    ELSE IF s.read_queue # << >>
    THEN [s EXCEPT !.futures = Append(@, Resolved(Head(s.read_queue))),
                   !.read_queue = Tail(@)]
    ELSE [s EXCEPT !.futures = Append(@, Pending),
                   !.read_future = Len(s.futures) + 1]

\* WebSocketClientConnection.on_connection_close: a connect future still
\* pending fails with StreamClosedError, and on_message(None) ends the reader.
client_on_connection_close(s) ==
    conn_on_message(
        Do([s EXCEPT !.connect_future = IF @ = "pending" THEN "exception" ELSE @],
           Eff("on_message", None, NoneBytes)),
        NoneBytes)

\* ---------------------------------------------------------- the handshake
\* A header the request does not carry.
Missing == "<missing>"

\* request.headers.get(name, default)
headers_get(v, default) == IF v = Missing THEN default ELSE v

\* bool(value) of a header value
Truthy(v) == v \notin {Missing, ""}

\* str.lower, str.split(",") and str.strip on the header values of this model.
lower(v) ==
    CASE v = "WebSocket" -> "websocket"
      [] v = "Upgrade" -> "upgrade"
      [] v = " Upgrade" -> " upgrade"
      [] OTHER -> v

split(v) ==
    CASE v = "keep-alive, Upgrade" -> << "keep-alive", " Upgrade" >>
      [] v = "1.2.3.4, 5.6.7.8" -> << "1.2.3.4", " 5.6.7.8" >>
      [] OTHER -> << v >>

strip(v) ==
    CASE v = " Upgrade" -> "Upgrade"
      [] v = " upgrade" -> "upgrade"
      [] v = " 5.6.7.8" -> "5.6.7.8"
      [] OTHER -> v

\* The permessage-deflate offers of this model: one the engine can agree to,
\* and one with a parameter _create_compressors does not allow.
Deflate == "permessage-deflate; server_no_context_takeover; client_no_context_takeover"
DeflateBogus == "permessage-deflate; bogus"

\* The bytes of an HTTP response written to the stream, by its status.
http_write(s, status) ==
    Do([s EXCEPT !.response = status], Eff("http", status, << >>))

\* set_status(status); finish(log_msg): the HTTP connection writes the
\* response, unless its stream is closed.
finish(s, status) == IF s.stream_closed THEN s ELSE http_write(s, status)

\* ------------------------------------------------ hashlib.sha1 and base64
\* The characters of a key, of the GUID and of base64, and their codes.
Digits == << "0", "1", "2", "3", "4", "5", "6", "7", "8", "9" >>

Upper ==
    << "A", "B", "C", "D", "E", "F", "G", "H", "I", "J", "K", "L", "M",
       "N", "O", "P", "Q", "R", "S", "T", "U", "V", "W", "X", "Y", "Z" >>

Lower ==
    << "a", "b", "c", "d", "e", "f", "g", "h", "i", "j", "k", "l", "m",
       "n", "o", "p", "q", "r", "s", "t", "u", "v", "w", "x", "y", "z" >>

Range(seq) == { seq[i] : i \in 1..Len(seq) }

IndexOf(c, seq) == CHOOSE i \in 1..Len(seq) : seq[i] = c

ord(c) ==
    CASE c = "+" -> 43
      [] c = "-" -> 45
      [] c = "/" -> 47
      [] c = "=" -> 61
      [] c \in Range(Digits) -> 47 + IndexOf(c, Digits)
      [] c \in Range(Upper) -> 64 + IndexOf(c, Upper)
      [] c \in Range(Lower) -> 96 + IndexOf(c, Lower)

\* A 32-bit word is the sequence of its bits, the most significant first.
Bits(f) == SubSeq(f, 1, 32)

Word(hi, lo) ==
    Bits([i \in 1..32 |-> IF i <= 16 THEN (hi \div 2^(16 - i)) % 2
                          ELSE (lo \div 2^(32 - i)) % 2])

\* The number whose bits are w[i + 1] .. w[i + 8], and .. w[i + 16].
Byte(w, i) ==
    128 * w[i + 1] + 64 * w[i + 2] + 32 * w[i + 3] + 16 * w[i + 4] +
    8 * w[i + 5] + 4 * w[i + 6] + 2 * w[i + 7] + w[i + 8]

Half(w, i) == 256 * Byte(w, i) + Byte(w, i + 8)

rotl(a, n) == Bits([i \in 1..32 |-> a[((i - 1 + n) % 32) + 1]])

\* Addition modulo 2^32 of two words and of five, on the halves of the words.
WordAdd(a, b) ==
    LET lo == Half(a, 16) + Half(b, 16)
        hi == Half(a, 0) + Half(b, 0) + (lo \div 65536)
    IN  Word(hi % 65536, lo % 65536)

WordAdd5(a, b, c, d, e) ==
    LET lo == Half(a, 16) + Half(b, 16) + Half(c, 16) + Half(d, 16) + Half(e, 16)
        hi == Half(a, 0) + Half(b, 0) + Half(c, 0) + Half(d, 0) + Half(e, 0) +
              (lo \div 65536)
    IN  Word(hi % 65536, lo % 65536)

\* The padding of SHA-1: 0x80, zero bytes up to 56 modulo 64, and the length
\* of the message in bits as 64 bits.
Pad(m) ==
    LET zeros == (119 - Len(m)) % 64
    IN  m \o << 128 >> \o [i \in 1..zeros |-> 0] \o
        << 0, 0, 0, 0, 0, 0, (8 * Len(m)) \div 256, (8 * Len(m)) % 256 >>

\* The message schedule: the words from..to - 1 (from 0) are added to the
\* sixteen words of the block.
RECURSIVE Schedule(_, _, _)
Schedule(w, from, to) ==
    IF to = from THEN w
    ELSE IF to = from + 1
    THEN Append(w, rotl([i \in 1..32 |-> (w[to - 3][i] + w[to - 8][i] +
                                          w[to - 14][i] + w[to - 16][i]) % 2], 1))
    ELSE LET mid == (from + to) \div 2
             first == Schedule(w, from, mid)
         IN  IF Len(first) = mid THEN Schedule(first, mid, to) ELSE first

BlockWords(p, b) ==
    Schedule([j \in 1..16 |->
                Word(256 * p[64 * b + 4 * j - 3] + p[64 * b + 4 * j - 2],
                     256 * p[64 * b + 4 * j - 1] + p[64 * b + 4 * j])], 16, 80)

\* Round t (from 0) on the working variables a, b, c, d, e.
Round(v, w, t) ==
    LET b == v[2]
        c == v[3]
        d == v[4]
        f == IF t < 20 THEN [i \in 1..32 |-> b[i] * c[i] + (1 - b[i]) * d[i]]
             ELSE IF t \in 40..59
             THEN [i \in 1..32 |-> IF b[i] + c[i] + d[i] >= 2 THEN 1 ELSE 0]
             ELSE [i \in 1..32 |-> (b[i] + c[i] + d[i]) % 2]
        k == IF t < 20 THEN Word(23170, 31129)
             ELSE IF t < 40 THEN Word(28377, 60321)
             ELSE IF t < 60 THEN Word(36635, 48348)
             ELSE Word(51810, 49622)
    IN  << WordAdd5(rotl(v[1], 5), f, v[5], k, w[t + 1]), v[1], rotl(b, 30), c, d >>

\* The rounds from..to - 1.
RECURSIVE Rounds(_, _, _, _)
Rounds(v, w, from, to) ==
    IF to = from + 1 THEN Round(v, w, from)
    ELSE LET mid == (from + to) \div 2
             first == Rounds(v, w, from, mid)
         IN  IF Len(first) = 5 THEN Rounds(first, w, mid, to) ELSE first

\* The blocks from b (from 0) on: the eighty words of a block, its eighty
\* rounds, and the sums that go into the next block.
RECURSIVE Blocks(_, _, _)
Blocks(h, p, b) ==
    IF 64 * b = Len(p) THEN h
    ELSE LET w == BlockWords(p, b)
             v == Rounds(h, w, 0, 80)
         IN  IF Len(w) = 80 /\ Len(v) = 5
             THEN Blocks(SubSeq([i \in 1..5 |-> WordAdd(h[i], v[i])], 1, 5),
                         p, b + 1)
             ELSE h

\* hashlib.sha1(m).digest(): twenty bytes
sha1(m) ==
    LET h == Blocks(<< Word(26437, 8961), Word(61389, 43913), Word(39098, 56574),
                       Word(4146, 21622), Word(50130, 57840) >>, Pad(m), 0)
    IN  SubSeq([i \in 1..20 |-> Byte(h[(i + 3) \div 4], 8 * ((i - 1) % 4))],
               1, 20)

B64 == Upper \o Lower \o Digits \o << "+", "/" >>

\* base64.b64encode
RECURSIVE b64encode(_)
b64encode(d) ==
    IF d = << >> THEN ""
    ELSE LET b1 == d[1]
             b2 == IF Len(d) > 1 THEN d[2] ELSE 0
             b3 == IF Len(d) > 2 THEN d[3] ELSE 0
         IN  B64[(b1 \div 4) + 1] \o B64[16 * (b1 % 4) + (b2 \div 16) + 1] \o
             (IF Len(d) > 1 THEN B64[4 * (b2 % 16) + (b3 \div 64) + 1] ELSE "=") \o
             (IF Len(d) > 2 THEN B64[(b3 % 64) + 1] ELSE "=") \o
             (IF Len(d) > 3 THEN b64encode(SubSeq(d, 4, Len(d))) ELSE "")

\* ------------------------------------------------ Sec-WebSocket-Accept
\* The keys of this model, base64 of 16 bytes: the key of RFC 6455 and the
\* key of sixteen zero bytes.
SampleKey == "dGhlIHNhbXBsZSBub25jZQ=="
ZeroKey == "AAAAAAAAAAAAAAAAAAAAAA=="

WebSocketKeys == << SampleKey, ZeroKey >>

\* The characters of a key.
Characters(key) ==
    CASE key = SampleKey ->
           << "d", "G", "h", "l", "I", "H", "N", "h", "b", "X", "B", "s",
              "Z", "S", "B", "u", "b", "2", "5", "j", "Z", "Q", "=", "=" >>
      [] key = ZeroKey ->
           << "A", "A", "A", "A", "A", "A", "A", "A", "A", "A", "A", "A",
              "A", "A", "A", "A", "A", "A", "A", "A", "A", "A", "=", "=" >>

\* b"258EAFA5-E914-47DA-95CA-C5AB0DC85B11"
Magic ==
    << "2", "5", "8", "E", "A", "F", "A", "5", "-", "E", "9", "1", "4", "-",
       "4", "7", "D", "A", "-", "9", "5", "C", "A", "-",
       "C", "5", "A", "B", "0", "D", "C", "8", "5", "B", "1", "1" >>

\* The bytes of a string of ASCII characters.
Codes(cs) == [i \in 1..Len(cs) |-> ord(cs[i])]

\* sha1.update(utf8(key)); sha1.update(Magic); b64encode(sha1.digest()),
\* for each key of the model.
AcceptValues ==
    SubSeq([n \in 1..Len(WebSocketKeys) |->
              b64encode(sha1(Codes(Characters(WebSocketKeys[n]) \o Magic)))],
           1, Len(WebSocketKeys))

\* The values are computed once and looked up from then on.
Digests == accept_values = AcceptValues
NoDigests == accept_values = << >>

\* A header that is absent is None, utf8(None) is None and sha1.update(None)
\* raises TypeError: there is no value then.
compute_accept_value(key) ==
    IF key \in Range(WebSocketKeys)
    THEN accept_values[IndexOf(key, WebSocketKeys)]
    ELSE Missing

\* _challenge_response that answers every request with the value of the
\* sample key.
_challenge_response_of_sample(req) == compute_accept_value(SampleKey)

_challenge_response(req) == compute_accept_value(req.key)

\* check_origin is the handler's policy: the request carries its answer.
check_origin(req) == req.origin_ok

get_websocket_protocol(req) == req.version \in {"7", "8", "13"}

\* _handle_websocket_headers that does not ask for a key.
_handle_websocket_headers_no_key(req) ==
    Truthy(req.host) /\ Truthy(req.version)

\* _handle_websocket_headers: FALSE for ValueError
_handle_websocket_headers(req) ==
    Truthy(req.host) /\ Truthy(req.key) /\ Truthy(req.version)

\* _accept_connection; select_subprotocol selects nothing.  The extension is
\* taken up when the handler gave compression options; a parameter that is
\* not allowed raises ValueError, which accept_connection turns into _abort.
_accept_connection(s, req, raises) ==
    LET deflate == req.extensions # Missing /\ req.compression_options
        s1 == IF deflate THEN [s EXCEPT !.decompressor = TRUE] ELSE s
    IN  IF deflate /\ req.extensions = DeflateBogus THEN _abort(s)
        ELSE IF s1.stream_closed THEN _abort(s1)
        ELSE _receive_frame(
                 _run_callback(
                     Do([s1 EXCEPT !.response = 101],
                        Eff("http", 101, << _challenge_response(req) >>)),
                     Eff("open", None, << >>), raises))

\* accept_connection that answers a malformed request with 400 before it
\* aborts.
accept_connection_replying(s, req, raises) ==
    IF ~_handle_websocket_headers(req) THEN _abort(http_write(s, 400))
    ELSE _accept_connection(s, req, raises)

accept_connection(s, req, raises) ==
    IF ~_handle_websocket_headers(req) THEN _abort(s)
    ELSE _accept_connection(s, req, raises)

\* WebSocketHandler.get
get(s, req, raises) ==
    LET connection == { lower(strip(split(headers_get(req.connection, ""))[i])) :
                          i \in 1..Len(split(headers_get(req.connection, ""))) }
        origin == IF req.origin # Missing THEN req.origin ELSE req.sec_origin
        s1 == [s EXCEPT !.detached = TRUE]
    IN  IF lower(headers_get(req.upgrade, "")) # "websocket" THEN finish(s, 400)
        ELSE IF "upgrade" \notin connection THEN finish(s, 400)
        ELSE IF origin # Missing /\ ~check_origin(req) THEN finish(s, 403)
        ELSE IF get_websocket_protocol(req)
        THEN accept_connection([s1 EXCEPT !.ws_connection = TRUE], req, raises)
        ELSE IF ~s1.stream_closed THEN stream_close(http_write(s1, 426))
        ELSE s1

\* ------------------------------------------------- the client's handshake
\* _parse_extensions_header: the names of the extensions of the header, its
\* value split at the commas.
_parse_extensions_header(headers) ==
    CASE headers.extensions = Missing -> << >>
      [] headers.extensions = "permessage-deflate" -> << "permessage-deflate" >>
      [] headers.extensions = DeflateBogus -> << "permessage-deflate" >>
      [] headers.extensions = "x-webkit-deflate-frame" ->
             << "x-webkit-deflate-frame" >>
      [] headers.extensions = "permessage-deflate, x-webkit-deflate-frame" ->
             << "permessage-deflate", "x-webkit-deflate-frame" >>

\* The loop of _process_server_headers over the extensions: permessage-deflate
\* of a client with compression options creates the compressors (a parameter
\* they do not know raises ValueError); anything else raises ValueError.
RECURSIVE process_extensions(_, _, _, _)
process_extensions(s, headers, exts, compression_options) ==
    IF exts = << >> THEN s
    ELSE IF Head(exts) = "permessage-deflate" /\ compression_options
    THEN IF headers.extensions = DeflateBogus THEN RaiseToCaller(s)
         ELSE process_extensions([s EXCEPT !.decompressor = TRUE], headers,
                                 Tail(exts), compression_options)
    ELSE RaiseToCaller(s)

\* _process_server_headers that takes any Sec-Websocket-Accept.
_process_server_headers_any_accept(s, key, headers, compression_options) ==
    IF headers.upgrade = Missing THEN RaiseToCaller(s)
    ELSE IF lower(headers.upgrade) # "websocket" THEN RaiseToCaller(s)
    ELSE IF headers.connection = Missing THEN RaiseToCaller(s)
    ELSE IF lower(headers.connection) # "upgrade" THEN RaiseToCaller(s)
    ELSE IF headers.accept = Missing THEN RaiseToCaller(s)
    ELSE process_extensions(s, headers, _parse_extensions_header(headers),
                            compression_options)

\* _process_server_headers: a header that is missing raises KeyError, an
\* assert that fails raises AssertionError, an extension that was not enabled
\* raises ValueError.
_process_server_headers(s, key, headers, compression_options) ==
    IF headers.upgrade = Missing THEN RaiseToCaller(s)
    ELSE IF lower(headers.upgrade) # "websocket" THEN RaiseToCaller(s)
    ELSE IF headers.connection = Missing THEN RaiseToCaller(s)
    ELSE IF lower(headers.connection) # "upgrade" THEN RaiseToCaller(s)
    ELSE IF headers.accept = Missing THEN RaiseToCaller(s)
    ELSE IF headers.accept # compute_accept_value(key) THEN RaiseToCaller(s)
    ELSE process_extensions(s, headers, _parse_extensions_header(headers),
                            compression_options)

\* _on_http_response: a connect future still pending fails.
_on_http_response(s) ==
    [s EXCEPT !.connect_future = IF @ = "pending" THEN "exception" ELSE @]

\* The HTTP connection gives up: the final callback runs with the error or
\* with the response that is no upgrade, and the stream is closed.
http_fails(s) == stream_close(_on_http_response([s EXCEPT !.exc = FALSE]))

\* WebSocketClientConnection.headers_received: a status other than 101 is an
\* ordinary response; else the protocol is made, the headers are processed,
\* the first read is asked for, the stream detached and the connect future
\* resolved.  An exception of _process_server_headers ends the HTTP
\* connection.
headers_received(s, req, headers) ==
    IF headers.code # 101 THEN http_fails(s)
    ELSE LET s1 == _process_server_headers([s EXCEPT !.ws_connection = TRUE],
                                           req.key, headers,
                                           req.compression_options)
         IN  IF s1.exc THEN http_fails(s1)
             ELSE [_receive_frame(s1) EXCEPT !.detached = TRUE,
                                             !.connect_future = "result"]

\* ------------------------------------------------------------------ inputs

\* Payloads by opcode.  Data frames: nothing, "a", the DEFLATE stream of "a",
\* and two bytes that are not UTF-8.  Pings and pongs: the DEFLATE stream of
\* "a".  Close frames: nothing, the status code 1000, 1000 with the reason
\* "bye", 1000 with a reason that is not UTF-8.
DataPayloads == { << >>, << 97 >>, << 74, 4, 0 >>, << 3, 232 >> }
PingPayloads == { << 74, 4, 0 >> }
ClosePayloads ==
    { << >>, << 3, 232 >>, << 3, 232, 98, 121, 101 >>, << 3, 232, 255 >> }
PayloadsOf(opcode) ==
    IF opcode = 8 THEN ClosePayloads
    ELSE IF opcode \in {9, 10} THEN PingPayloads
    ELSE DataPayloads
Opcodes == {0, 1, 2, 8, 9, 10}
MaskKeys == { << 55, 250, 33, 61 >> }

\* The three forms of the payload length: in the 7 bits, or the codes 126 and
\* 127 followed by the length in 16 and 64 bits (the engine accepts a short
\* length in a long form).
LengthForms == {7, 16, 64}
LengthCode(form, n) == IF form = 7 THEN n ELSE IF form = 16 THEN 126 ELSE 127
ExtendedLength(form, n) ==
    IF form = 16 THEN << 0, n >> ELSE << 0, 0, 0, 0, 0, 0, 0, n >>

\* A frame on the wire: the two header bytes, the extended length, the
\* masking key and the payload the peer means to send.
WireFrame(fin, rsv, opcode, mask, form, key, p) ==
    [ header |-> << fin + rsv + opcode, mask + LengthCode(form, Len(p)) >>,
      length |-> ExtendedLength(form, Len(p)),
      key |-> key,
      payload |-> p ]

\* No frame: nothing of the peer is being read.
NoFrame == [ header |-> << >>, length |-> << >>, key |-> << >>, payload |-> << >> ]

\* The mask bit of a peer that follows RFC 6455: a client's peer is a server.
PeerMask == IF mask_outgoing THEN 0 ELSE 128

\* The frames the peer may send: every opcode with every payload of the opcode,
\* final or not, with and without RSV1, the length in the 7 bits and the mask
\* bit by the rule; and final binary and ping frames with RSV2 or RSV3, in the
\* long length forms and against the mask rule.
WireFrames ==
    UNION { { WireFrame(fin, rsv, opcode, PeerMask, 7, key, p) :
                fin \in {0, FIN}, rsv \in {0, RSV1}, key \in MaskKeys,
                p \in PayloadsOf(opcode) } : opcode \in Opcodes }
    \cup
    { WireFrame(FIN, rsv, opcode, PeerMask, 7, key, << 74, 4, 0 >>) :
        rsv \in {RSV2, RSV3}, opcode \in {2, 9}, key \in MaskKeys }
    \cup
    { WireFrame(FIN, 0, opcode, mask, form, key, << 74, 4, 0 >>) :
        opcode \in {2, 9}, mask \in {0, 128}, form \in LengthForms,
        key \in MaskKeys }

\* The frames of a peer during the close handshake: text in one or more
\* fragments, pings, and every close frame, with and without RSV1.
HandshakeFrames ==
    { WireFrame(fin, 0, opcode, PeerMask, 7, key, << 97 >>) :
        fin \in {0, FIN}, opcode \in {0, 1}, key \in MaskKeys }
    \cup
    UNION { { WireFrame(FIN, rsv, opcode, PeerMask, 7, key, p) :
                rsv \in {0, RSV1}, key \in MaskKeys, p \in PayloadsOf(opcode) } :
            opcode \in {8, 9} }

\* The frames read one read at a time: every opcode, final or not, every
\* reserved bit and RSV1 with RSV2, every length form, masked or not.
PipelineFrames ==
    { WireFrame(fin, rsv, opcode, mask, form, key,
                IF opcode = 8 THEN << 3, 232 >> ELSE << 74, 4, 0 >>) :
        fin \in {0, FIN}, rsv \in {0, RSV1, RSV2, RSV3, RSV1 + RSV2},
        opcode \in Opcodes, mask \in {0, 128}, form \in LengthForms,
        key \in MaskKeys }

\* What the application passes to close(code, reason).
CloseArgs ==
    { << None, NoneBytes >>, << None, << 98, 121, 101 >> >>,
      << NormalClosure, << 98, 121, 101 >> >> }

\* n bytes "x"
Bytes(n) == [i \in 1..n |-> 120]

\* The longest payload RFC 6455 allows in a control frame.
MaxControlPayload == 125

\* What the application passes to ping(data): nothing, "a", the longest
\* payload a control frame may carry, and one byte more.
PingData ==
    { << >>, << 97 >>, Bytes(MaxControlPayload), Bytes(MaxControlPayload + 1) }

\* What the application passes to close(code, reason) besides CloseArgs: the
\* reasons that make a payload of 125 and of 126 bytes with the status code,
\* 41 euro signs (three bytes each), and 41 euro signs and an "x".
LongReason == [i \in 1..41 |-> 8364]
LongCloseArgs ==
    { << NormalClosure, LongReason >>,
      << NormalClosure, LongReason \o << 120 >> >> }

\* What the application passes to write_message: the unicode strings "", "a"
\* and e-acute, and the byte string 03 e8.
Messages ==
    { [t |-> "str", v |-> << >>], [t |-> "str", v |-> << 97 >>],
      [t |-> "str", v |-> << 233 >>], [t |-> "bytes", v |-> << 3, 232 >>] }

\* The call write_message(message, binary), in the history of the step: the
\* message, 1 for binary, 1 for a unicode string.
Called(message, binary) ==
    [a |-> "write_message", op |-> IF binary THEN 1 ELSE 0, data |-> message.v,
     fin |-> None, flags |-> IF message.t = "str" THEN 1 ELSE 0, frame |-> << >>]

\* The keys os.urandom(4) returns to the calls of the application.
Urandom == { Urandom0, << 0, 0, 0, 255 >> }

\* The handshake requests: each header right, wrong or missing, the answer of
\* the handler's check_origin to the origin, and whether the handler gives
\* compression options.
Requests ==
    [ upgrade : {"WebSocket", "h2c", Missing},
      connection : {"keep-alive, Upgrade", "keep-alive", Missing},
      version : {"13", "8", "6", Missing},
      host : {"h", ""},
      key : {SampleKey, ZeroKey, Missing},
      origin : {"http://h", Missing},
      sec_origin : {"http://h", Missing},
      origin_ok : BOOLEAN,
      extensions : {Deflate, DeflateBogus, Missing},
      compression_options : BOOLEAN ]

\* After the handshake the request is not kept.
NoRequest == [ upgrade |-> Missing ]

\* No answer of a server: this side is a server, or the answer is not kept.
NoResponse == [ code |-> 0 ]

\* The frames of a peer right after the handshake: a text message, a ping, a
\* pong and a close frame.
OpeningFrames ==
    { WireFrame(FIN, 0, 1, 128, 7, Urandom0, << 97 >>),
      WireFrame(FIN, 0, 9, 128, 7, Urandom0, << 74, 4, 0 >>),
      WireFrame(FIN, 0, 10, 128, 7, Urandom0, << 74, 4, 0 >>),
      WireFrame(FIN, 0, 8, 128, 7, Urandom0, << 3, 232 >>) }

\* The requests of a client: its key, and whether compression options were
\* given.
ClientRequests ==
    [ upgrade : {"websocket"}, key : {SampleKey, ZeroKey},
      compression_options : BOOLEAN ]

\* The answers of a server to the handshake of a client.
ServerResponses ==
    [ code : {101, 200},
      upgrade : {Missing, "websocket", "WebSocket", "h2c"},
      connection : {Missing, "upgrade", "Upgrade", "keep-alive"},
      accept : {Missing, compute_accept_value(SampleKey),
                compute_accept_value(ZeroKey)},
      extensions : {Missing, "permessage-deflate", DeflateBogus,
                    "x-webkit-deflate-frame",
                    "permessage-deflate, x-webkit-deflate-frame"} ]

\* The frames of a server to a client whose handshake is done: the text
\* messages "a" and "b", a ping and a close frame.
ClientFrames ==
    { WireFrame(FIN, 0, 1, 0, 7, Urandom0, << 97 >>),
      WireFrame(FIN, 0, 1, 0, 7, Urandom0, << 98 >>),
      WireFrame(FIN, 0, 9, 0, 7, Urandom0, << 74, 4, 0 >>),
      WireFrame(FIN, 0, 8, 0, 7, Urandom0, << 3, 232 >>) }

\* ----------------------------------------------------------------- history
\* A frame as the peer sent it.
Frame(hdr, data) ==
    [ fin |-> BitAnd(hdr[1], FIN) \div FIN,
      rsv |-> BitAnd(hdr[1], RSV_MASK),
      opcode |-> BitAnd(hdr[1], OPCODE_MASK),
      data |-> data ]

\* w begins with a text or binary frame and holds no final data frame: the
\* peer is in the middle of a fragmented message.
InProgress(w) ==
    /\ w # << >>
    /\ w[1].opcode \in {1, 2}
    /\ \A i \in 1..Len(w) : w[i].opcode < 8 => w[i].fin = 0

\* The payload of a frame has arrived: the frame joins the message in
\* progress, or begins a new window.
Received(s, hdr, data) ==
    LET f == Frame(hdr, data)
        s1 == Do(s, [a |-> "frame", op |-> f.opcode, data |-> data,
                     fin |-> f.fin, flags |-> f.rsv, frame |-> << >>])
    IN  IF InProgress(s.cur) THEN [s1 EXCEPT !.cur = Append(@, f)]
        ELSE [s1 EXCEPT !.cur = << f >>, !.delivered = << >>]

\* ------------------------------------------------------------------ actions
\* A program without a synchronisation object.
\* The other end of the stream is the network.
\* The IOLoops of the process.
IOLoops == {1, 2}

\* No AsyncHTTPClient has been made.
NoClients ==
    /\ clients = << >>
    /\ _async_client_dict = [l \in IOLoops |-> None]
    /\ constructed = [l \in IOLoops |-> None]
    /\ client_act = [op |-> "none"]

\* No RequestHandler has been made.
NoHandler ==
    /\ handler = [made |-> FALSE]
    /\ http_connection = << >>
    /\ handler_act = [op |-> "none"]

\* No connection has been accepted by an HTTPServer.
NoContext ==
    /\ context = [made |-> FALSE]
    /\ xheaders = FALSE
    /\ serving = "none"
    /\ seen = << >>

NoWeb == NoClients /\ NoHandler /\ NoContext

NoLoopback ==
    /\ inbound = << >>
    /\ sent = << >>
    /\ read_size = 0

NoLocks ==
    /\ kind = "none"
    /\ _waiters = << >>
    /\ _timeouts = 0
    /\ _value = 0
    /\ _initial_value = 0
    /\ waiter_futures = << >>
    /\ releases = 0
    /\ lock_act = [ op |-> "none" ]

\* A connection whose handshake is done: the request is not kept.
Established ==
    /\ mask_outgoing \in BOOLEAN
    /\ decompressor \in BOOLEAN
    /\ client_terminated = FALSE
    /\ server_terminated = FALSE
    /\ final_frame = 0
    /\ frame_opcode = None
    /\ frame_opcode_is_control = 0
    /\ masked_frame = FALSE
    /\ frame_mask = NoneBytes
    /\ frame_length = None
    /\ frame_compressed = FALSE
    /\ fragmented_message_buffer = NoneBytes
    /\ fragmented_message_opcode = None
    /\ waiting = None
    /\ stream_closed = FALSE
    /\ read_callback = "_on_frame_start"
    /\ close_callback_run = FALSE
    /\ reads = 1
    /\ wire = NoFrame
    /\ timeouts = {}
    /\ timeouts_added = 0
    /\ ws_connection = TRUE
    /\ close_code = None
    /\ close_reason = NoneBytes
    /\ on_close_called = FALSE
    /\ request = NoRequest
    /\ response = 101
    /\ detached = TRUE
    /\ on_message_callback = TRUE
    /\ connect_future = "result"
    /\ read_future = 0
    /\ read_queue = << >>
    /\ server_response = NoResponse
    /\ futures = << >>
    /\ arrived = << >>
    /\ acts = << >>
    /\ nrecv = 0
    /\ cur = << >>
    /\ delivered = << >>
    /\ on_close_seen = << >>

Init ==
    /\ NoDigests
    /\ Established
    /\ NoLocks
    /\ NoLoopback
    /\ NoWeb

\* The peer's next frame arrives and the read pipeline runs over it: each
\* read completes from the bytes of the frame and calls the next handler.
ReadFrame(s, w, raises) ==
    LET s1 == _on_frame_start(read_done(s), w.header)
        s2 == IF s1.read_callback \in {"_on_frame_length_16", "_on_frame_length_64"}
              THEN _on_frame_length(read_done(s1), w.length)
              ELSE s1
        s3 == IF s2.read_callback = "_on_masking_key"
              THEN _on_masking_key(read_done(s2), w.key)
              ELSE s2
    IN  IF s3.read_callback = "_on_frame_data"
        THEN _on_frame_data(Received(read_done(s3), w.header, w.payload),
                            w.payload, raises)
        ELSE IF s3.read_callback = "_on_masked_frame_data"
        THEN _on_masked_frame_data(Received(read_done(s3), w.header, w.payload),
                                   websocket_mask(w.key, w.payload), raises)
        ELSE s3

OnFrameFrom(frames) ==
    /\ ~stream_closed
    /\ read_callback = "_on_frame_start"
    /\ nrecv < MaxFrames
    /\ \E w \in frames, raises \in BOOLEAN :
          Commit(ReadFrame([Cur EXCEPT !.nrecv = @ + 1], w, raises))

OnFrame == OnFrameFrom(WireFrames)

OnHandshakeFrame == OnFrameFrom(HandshakeFrames)

\* The application closes the connection.
HandlerClose ==
    /\ ws_connection
    /\ \E args \in CloseArgs : Commit(handler_close(Cur, args[1], args[2]))

\* The grace period ends: the IOLoop runs the timeout's callback, _abort.
GraceTimeout ==
    \E h \in timeouts : Commit(_abort([Cur EXCEPT !.timeouts = @ \ {h}]))

\* The socket is closed under the engine (the peer went away).
SocketClosed ==
    /\ detached
    /\ ~stream_closed
    /\ Commit(stream_close(Cur))

\* The closed stream runs its close callback, once.
HandlerOnConnectionClose ==
    /\ detached
    /\ stream_closed /\ ~close_callback_run /\ ~mask_outgoing
    /\ Commit(on_connection_close([Cur EXCEPT !.close_callback_run = TRUE]))

ClientOnConnectionClose ==
    /\ stream_closed /\ ~close_callback_run /\ mask_outgoing
    /\ Commit(client_on_connection_close([Cur EXCEPT !.close_callback_run = TRUE]))

Next ==
    \/ OnFrame
    \/ HandlerClose
    \/ GraceTimeout
    \/ SocketClosed
    \/ HandlerOnConnectionClose
    \/ ClientOnConnectionClose

Spec == Init /\ [][Next]_vars

\* The read pipeline one read at a time.  The header of the peer's next frame
\* arrives: the pending 2-byte read completes.
OnFrameStart ==
    /\ ~stream_closed
    /\ read_callback = "_on_frame_start"
    /\ nrecv < MaxPipelineFrames
    /\ \E w \in PipelineFrames :
          Commit(_on_frame_start(read_done([Cur EXCEPT !.nrecv = @ + 1,
                                                       !.wire = w]),
                                 w.header))

OnFrameLength ==
    /\ ~stream_closed
    /\ read_callback \in {"_on_frame_length_16", "_on_frame_length_64"}
    /\ Commit(_on_frame_length(read_done(Cur), wire.length))

OnMaskingKey ==
    /\ ~stream_closed
    /\ read_callback = "_on_masking_key"
    /\ Commit(_on_masking_key(read_done(Cur), wire.key))

OnFrameData ==
    /\ ~stream_closed
    /\ read_callback = "_on_frame_data"
    /\ \E raises \in BOOLEAN :
          Commit(_on_frame_data(Received(read_done(Cur), wire.header, wire.payload),
                                wire.payload, raises))

OnMaskedFrameData ==
    /\ ~stream_closed
    /\ read_callback = "_on_masked_frame_data"
    /\ \E raises \in BOOLEAN :
          Commit(_on_masked_frame_data(
                     Received(read_done(Cur), wire.header, wire.payload),
                     websocket_mask(wire.key, wire.payload), raises))

NextPipeline ==
    \/ OnFrameStart
    \/ OnFrameLength
    \/ OnMaskingKey
    \/ OnFrameData
    \/ OnMaskedFrameData
    \/ HandlerClose
    \/ GraceTimeout
    \/ SocketClosed
    \/ HandlerOnConnectionClose
    \/ ClientOnConnectionClose

PipelineSpec == Init /\ [][NextPipeline]_vars

\* The application's calls on a connection whose peer sends the frames of the
\* close handshake.
HandlerWriteMessage ==
    \E message \in Messages, binary \in BOOLEAN, key \in Urandom :
        Commit(handler_write_message(
                   Do([Cur EXCEPT !.urandom = key], Called(message, binary)),
                   message, binary))

HandlerPing ==
    /\ ~mask_outgoing
    /\ \E data \in PingData : Commit(ping(Cur, data))

ApiClose ==
    /\ ws_connection
    /\ \E args \in CloseArgs \cup LongCloseArgs, key \in Urandom :
          Commit(handler_close([Cur EXCEPT !.urandom = key], args[1], args[2]))

NextApi ==
    \/ OnHandshakeFrame
    \/ HandlerWriteMessage
    \/ HandlerPing
    \/ ApiClose
    \/ GraceTimeout
    \/ SocketClosed
    \/ HandlerOnConnectionClose
    \/ ClientOnConnectionClose

ApiSpec == Init /\ [][NextApi]_vars

\* A server connection from the handshake on.  The HTTP server has parsed the
\* request and the handler is about to run get.
InitHandshake ==
    /\ Digests
    /\ mask_outgoing = FALSE
    /\ decompressor = FALSE
    /\ client_terminated = FALSE
    /\ server_terminated = FALSE
    /\ final_frame = 0
    /\ frame_opcode = None
    /\ frame_opcode_is_control = 0
    /\ masked_frame = FALSE
    /\ frame_mask = NoneBytes
    /\ frame_length = None
    /\ frame_compressed = FALSE
    /\ fragmented_message_buffer = NoneBytes
    /\ fragmented_message_opcode = None
    /\ waiting = None
    /\ stream_closed = FALSE
    /\ read_callback = "none"
    /\ close_callback_run = FALSE
    /\ reads = 0
    /\ wire = NoFrame
    /\ timeouts = {}
    /\ timeouts_added = 0
    /\ ws_connection = FALSE
    /\ close_code = None
    /\ close_reason = NoneBytes
    /\ on_close_called = FALSE
    /\ request \in Requests
    /\ response = None
    /\ detached = FALSE
    /\ on_message_callback = TRUE
    /\ connect_future = "result"
    /\ read_future = 0
    /\ read_queue = << >>
    /\ server_response = NoResponse
    /\ futures = << >>
    /\ arrived = << >>
    /\ acts = << >>
    /\ nrecv = 0
    /\ cur = << >>
    /\ delivered = << >>
    /\ on_close_seen = << >>
    /\ NoLocks
    /\ NoLoopback
    /\ NoWeb

\* The handler runs get on the request; open may raise.
Get ==
    /\ ~detached /\ response = None
    /\ \E raises \in BOOLEAN :
          LET s == get(Cur, request, raises)
          IN  /\ CommitState(s)
              /\ decompressor' = s.decompressor
              /\ UNCHANGED server_response

OnOpeningFrame == OnFrameFrom(OpeningFrames)

NextHandshake ==
    \/ Get
    \/ OnOpeningFrame
    \/ HandlerClose
    \/ GraceTimeout
    \/ SocketClosed
    \/ HandlerOnConnectionClose

\* The IOLoop runs the handler of a parsed request, and runs the close
\* callback of a closed stream.
HandshakeSpec ==
    /\ InitHandshake
    /\ [][NextHandshake]_vars
    /\ WF_vars(Get)
    /\ WF_vars(HandlerOnConnectionClose)

\* A client connection that websocket_connect has made: the request is on its
\* way, the connect future is pending.
InitClient ==
    /\ Digests
    /\ mask_outgoing = TRUE
    /\ decompressor = FALSE
    /\ client_terminated = FALSE
    /\ server_terminated = FALSE
    /\ final_frame = 0
    /\ frame_opcode = None
    /\ frame_opcode_is_control = 0
    /\ masked_frame = FALSE
    /\ frame_mask = NoneBytes
    /\ frame_length = None
    /\ frame_compressed = FALSE
    /\ fragmented_message_buffer = NoneBytes
    /\ fragmented_message_opcode = None
    /\ waiting = None
    /\ stream_closed = FALSE
    /\ read_callback = "none"
    /\ close_callback_run = FALSE
    /\ reads = 0
    /\ wire = NoFrame
    /\ timeouts = {}
    /\ timeouts_added = 0
    /\ ws_connection = FALSE
    /\ close_code = None
    /\ close_reason = NoneBytes
    /\ on_close_called = FALSE
    /\ request \in ClientRequests
    /\ response = None
    /\ detached = FALSE
    /\ on_message_callback \in BOOLEAN
    /\ connect_future = "pending"
    /\ read_future = 0
    /\ read_queue = << >>
    /\ server_response = NoResponse
    /\ futures = << >>
    /\ arrived = << >>
    /\ acts = << >>
    /\ nrecv = 0
    /\ cur = << >>
    /\ delivered = << >>
    /\ on_close_seen = << >>
    /\ NoLocks
    /\ NoLoopback
    /\ NoWeb

\* The status line and the headers of the server's answer arrive.
HeadersReceived ==
    /\ ~stream_closed /\ server_response = NoResponse
    /\ \E headers \in ServerResponses :
          LET s == headers_received(Cur, request, headers)
          IN  /\ CommitState(s)
              /\ decompressor' = s.decompressor
              /\ server_response' = headers

\* A frame of the server arrives.
OnClientFrame ==
    /\ ~stream_closed
    /\ read_callback = "_on_frame_start"
    /\ nrecv < MaxClientFrames
    /\ \E w \in ClientFrames, raises \in BOOLEAN :
          Commit(ReadFrame([Cur EXCEPT !.nrecv = @ + 1], w, raises))

\* The application, which has the connection from the connect future, calls
\* read_message.
ReadMessage ==
    /\ connect_future = "result"
    /\ Len(futures) < MaxReads
    /\ Commit(read_message(Cur))

\* The socket is closed under the client, before or after the handshake.
ClientSocketClosed ==
    /\ ~stream_closed
    /\ Commit(stream_close(Cur))

NextClient ==
    \/ HeadersReceived
    \/ OnClientFrame
    \/ ReadMessage
    \/ HandlerClose
    \/ GraceTimeout
    \/ ClientSocketClosed
    \/ ClientOnConnectionClose

\* The IOLoop runs the close callback of a closed stream.
ClientSpec ==
    /\ InitClient
    /\ [][NextClient]_vars
    /\ WF_vars(ClientOnConnectionClose)

\* The close handshake against a peer that sends text, pings and close frames.  The IOLoop runs a timeout once its deadline has passed: a
\* scheduled grace timer does not stay scheduled for ever.
NextClosing ==
    \/ OnHandshakeFrame
    \/ HandlerClose
    \/ GraceTimeout
    \/ SocketClosed
    \/ HandlerOnConnectionClose
    \/ ClientOnConnectionClose

ClosingSpec == Init /\ [][NextClosing]_vars /\ WF_vars(GraceTimeout)

\* ------------------------------------------------------- reading the history
\* The payloads of the data frames of w, in order.
RECURSIVE MessageData(_)
MessageData(w) ==
    IF w = << >> THEN << >>
    ELSE (IF w[1].opcode < 8 THEN w[1].data ELSE << >>) \o MessageData(Tail(w))

\* w is a non-final text or binary frame and then continuation frames, the
\* last of them final and no other: a whole fragmented message, nothing between.
Fragmented(w) ==
    /\ Len(w) >= 2
    /\ w[1].opcode \in {1, 2}
    /\ w[1].fin = 0
    /\ \A i \in 2..Len(w) : w[i].opcode = 0 /\ (w[i].fin = 1 <=> i = Len(w))

\* w is the beginning of such a message, its final fragment yet to come.
Unfinished(w) ==
    /\ Len(w) >= 1
    /\ w[1].opcode \in {1, 2}
    /\ \A i \in 1..Len(w) : w[i].fin = 0 /\ (i > 1 => w[i].opcode = 0)

NoReserved(w) == \A i \in 1..Len(w) : w[i].rsv = 0

\* Whether bytes received under an opcode make a message: any binary ones,
\* text that is UTF-8.
Deliverable(opcode, data) == opcode = 2 \/ Utf8Valid(data)

\* The on_message call for bytes received under an opcode.
OnMessage(opcode, data) ==
    Eff("on_message", opcode,
        IF opcode = 1
        THEN (IF Utf8Valid(data) THEN Utf8Decode(data) ELSE NoneBytes)
        ELSE data)

Aborted == stream_closed /\ client_terminated /\ server_terminated

\* w is a whole message with final pings and pongs among its frames: a text or
\* binary frame, then continuation frames and final ping or pong frames, the
\* last frame a final continuation and no continuation before it final.
\* Unfinished: the same, without the final continuation.
Interleaved(w, finished) ==
    /\ Len(w) >= 2
    /\ w[1].opcode \in {1, 2}
    /\ w[1].fin = 0
    /\ \A i \in 2..Len(w) :
          \/ w[i].opcode = 0 /\ (w[i].fin = 1 <=> (finished /\ i = Len(w)))
          \/ w[i].opcode \in {9, 10} /\ w[i].fin = 1 /\ i < Len(w)
          \/ w[i].opcode \in {9, 10} /\ w[i].fin = 1 /\ ~finished
    /\ \E i \in 2..Len(w) : w[i].opcode \in {9, 10}

\* w is a whole message: one final text or binary frame, or a fragmented
\* message with or without pings and pongs among its frames.
Whole(w) ==
    \/ Len(w) = 1 /\ w[1].opcode \in {1, 2} /\ w[1].fin = 1
    \/ Fragmented(w)
    \/ Interleaved(w, TRUE)

\* The step received a frame, whose payload arrived: where in the effects of a
\* step the frame is, the frame, and the effects of handling it.
HasFrame(a) == \E i \in 1..Len(a) : a[i].a = "frame"
FrameAt(a) == CHOOSE i \in 1..Len(a) : a[i].a = "frame"
FrameIn(a) == a[FrameAt(a)]
Handled(a) == SubSeq(a, FrameAt(a) + 1, Len(a))

\* The step from this state to the next received a final frame of this opcode.
ReceivedNow(opcode) ==
    /\ nrecv' = nrecv + 1
    /\ HasFrame(acts')
    /\ FrameIn(acts').op = opcode
    /\ FrameIn(acts').fin = 1

\* A final frame written without flags.
Written(opcode, data) ==
    _write_frame([stream_closed |-> FALSE, acts |-> << >>, urandom |-> Urandom0],
                 TRUE, opcode, data, 0).acts[1]

\* The payload of a close frame that echoes the status code of payload p.
EchoOf(p) == IF Len(p) >= 2 THEN PackH(UnpackH(p)) ELSE << >>

\* ------------------------------------------------------------------- claims
\* C1, as stated: once the final fragment of a fragmented message (a non-final
\* text or binary frame, then continuation frames, the last one final) has been
\* received, on_message has been called exactly once since the message began,
\* with the fragments' payloads concatenated in order and read under the first
\* frame's opcode.
C1_Original ==
    Fragmented(cur) => delivered = << OnMessage(cur[1].opcode, MessageData(cur)) >>

\* C1, amended: for such a sequence of frames with no reserved bit set,
\* on_message is not called before the final fragment; after the final
\* fragment it has been called exactly once, with the concatenation read under
\* the first frame's opcode, if the message is binary or the concatenation is
\* UTF-8; for a text message whose concatenation is not UTF-8 it is not called
\* at all and the connection is aborted.
C1_Reassembly ==
    /\ (Unfinished(cur) /\ NoReserved(cur)) => delivered = << >>
    /\ (Fragmented(cur) /\ NoReserved(cur)) =>
          IF Deliverable(cur[1].opcode, MessageData(cur))
          THEN delivered = << OnMessage(cur[1].opcode, MessageData(cur)) >>
          ELSE delivered = << >> /\ Aborted

\* C1, reached: a text message in three fragments, the first and the last
\* different, has been delivered.
C1_Witness ==
    /\ Fragmented(cur) /\ NoReserved(cur)
    /\ Len(cur) = 3
    /\ cur[1].opcode = 1
    /\ cur[1].data # << >> /\ cur[3].data # << >>
    /\ cur[1].data # cur[3].data
    /\ Len(delivered) = 1

\* C2: a text or binary frame received while a fragmented message is in
\* progress, and a continuation frame received while none is, abort the
\* connection: the stream is closed and on_message is called neither for that
\* frame nor for the partial message.
C2_UnexpectedFragmentAborts ==
    LET n == Len(cur)
    IN  (\/ n >= 2 /\ cur[n].opcode \in {1, 2}
         \/ n = 1 /\ cur[1].opcode = 0)
        => Aborted /\ delivered = << >>

\* C2, reached: a final binary frame arrived after the first two fragments of
\* a message, and the connection is aborted.
C2_Witness ==
    /\ Len(cur) = 3
    /\ cur[2].opcode = 0
    /\ cur[3].opcode = 2 /\ cur[3].fin = 1
    /\ Aborted

\* C3: final ping and pong frames received between the fragments of a
\* fragmented message leave the reassembly buffer and the remembered opcode
\* unchanged, so that the message completes with exactly the data fragments'
\* payloads under the first fragment's opcode.  Stated for a message whose
\* first frame has no reserved bit set: while it is unfinished the buffer holds
\* the data fragments received and nothing is delivered; once it is finished,
\* and binary or UTF-8, exactly that message has been delivered.
C3_Original ==
    /\ (Interleaved(cur, FALSE) /\ cur[1].rsv = 0) =>
          /\ fragmented_message_buffer = MessageData(cur)
          /\ fragmented_message_opcode = cur[1].opcode
          /\ delivered = << >>
    /\ (/\ Interleaved(cur, TRUE)
        /\ cur[1].rsv = 0
        /\ Deliverable(cur[1].opcode, MessageData(cur))) =>
          delivered = << OnMessage(cur[1].opcode, MessageData(cur)) >>

\* C4: with permessage-deflate negotiated, a whole message is inflated before
\* dispatch if and only if RSV1 was set on its first frame, however many
\* continuation frames it has and whatever control frames came between its
\* first and its final fragment: what is delivered is the inflated
\* concatenation if RSV1 was set, the concatenation as it is if not.  Stated
\* for messages whose later frames have no reserved bit set.
C4_Original ==
    (decompressor /\ Whole(cur) /\ NoReserved(Tail(cur))) =>
        LET raw == MessageData(cur)
            compressed == BitAnd(cur[1].rsv, RSV1) # 0
            data == IF compressed THEN decompress(raw) ELSE raw
        IN  ((compressed => InflateOk(raw)) /\ Deliverable(cur[1].opcode, data))
            => delivered = << OnMessage(cur[1].opcode, data) >>

\* C5: whenever a close frame is received while the engine has not yet sent a
\* close frame and the stream is open, the engine marks the peer terminated,
\* writes exactly one close frame that carries the received status code (no
\* payload when none was received), and then closes the stream.
C5_Original ==
    [][ (ReceivedNow(8) /\ ~server_terminated) =>
          /\ client_terminated'
          /\ Handled(acts') = << Written(8, EchoOf(FrameIn(acts').data)),
                                 Eff("stream.close", None, << >>) >> ]_vars

\* C6: after the application calls close() on an open connection a close frame
\* is written and a timeout of 5 seconds is added; and in every execution the
\* stream of an engine that has sent its close frame is eventually closed, on
\* the peer's close frame or else when the timeout runs.
C6_CloseEndsInClosedStream ==
    /\ [][ (ws_connection /\ ~ws_connection' /\ ~stream_closed /\ ~server_terminated) =>
             /\ Len(acts') = 2
             /\ acts'[1].a = "write" /\ acts'[1].op = 8 /\ acts'[1].fin = 1
             /\ acts'[2] = Eff("add_timeout", GracePeriod, << >>)
             /\ waiting' \in timeouts'
             /\ server_terminated' ]_vars
    /\ (server_terminated ~> stream_closed)

\* C6, reached: the peer sent nothing after the local close, the timeout ran
\* and closed the stream.
C6_Witness ==
    /\ nrecv = 0
    /\ ~ws_connection
    /\ timeouts_added = 1 /\ timeouts = {}
    /\ stream_closed
    /\ Len(acts) = 2
    /\ acts[1].a = "stream.close" /\ acts[2].a = "remove_timeout"

\* C7: when the peer's close frame arrives after a local close() and before
\* the grace timeout has run, the timeout is removed, so that it never runs,
\* and the stream is closed.
C7_Original ==
    [][ (ReceivedNow(8) /\ server_terminated /\ waiting \in timeouts) =>
          /\ timeouts' = {}
          /\ stream_closed' ]_vars

\* C8: when the socket closes after a local close() and before the grace
\* timeout has run, the timeout is removed: once the close callback of the
\* handler (or of the client connection) has run for a socket that closed
\* with the timeout scheduled, no timeout is left scheduled.
C8_Original ==
    [][ (/\ acts = << Eff("stream.close", None, << >>) >>
         /\ timeouts # {}
         /\ ~close_callback_run /\ close_callback_run') =>
          timeouts' = {} ]_vars

\* C9: when a close frame with a status code and a reason has been received,
\* on_close finds exactly that code and that reason in close_code and
\* close_reason.
C9_Original ==
    LET n == Len(cur)
    IN  (/\ on_close_seen # << >>
         /\ n >= 1
         /\ cur[n].opcode = 8 /\ cur[n].fin = 1
         /\ Len(cur[n].data) > 2
         /\ Utf8Valid(From(cur[n].data, 2)))
        => on_close_seen = << UnpackH(cur[n].data),
                              Utf8Decode(From(cur[n].data, 2)) >>

\* C10: for every ping frame received while the peer has not terminated the
\* engine writes exactly one final pong frame with the ping's payload, and then
\* issues the read of the next frame header.
C10_Original ==
    [][ (ReceivedNow(9) /\ ~client_terminated) =>
          Handled(acts') = << Written(10, FrameIn(acts').data),
                              Eff("read", 2, << >>) >> ]_vars

\* ------------------------------------------- reading the frame on the wire
WireOpcode == BitAnd(wire.header[1], OPCODE_MASK)
WireFin == BitAnd(wire.header[1], FIN)
WireReserved == BitAnd(wire.header[1], RSV_MASK)
WireLength7 == BitAnd(wire.header[2], 127)

\* A read of the frame on the wire is pending: its length, key or payload.
ReadingFrame ==
    read_callback \in {"_on_frame_length_16", "_on_frame_length_64",
                       "_on_masking_key", "_on_frame_data",
                       "_on_masked_frame_data"}

\* Nothing was dispatched for the frame whose payload the last step read: the
\* step only closed the stream (and removed the grace timeout).
OnlyClosed(a) ==
    \A i \in 1..Len(a) : a[i].a \in {"stream.close", "remove_timeout"}

\* C11: a control frame with fin=0, or with 126 or 127 in its 7-bit length,
\* aborts the connection and is never dispatched: the oversized one is aborted
\* on its header, the fragmented one when its payload has been read; no pong
\* is written, on_pong is not called, no close handling runs, and the header
\* of a next frame is never read.
C11_ControlFrameRule ==
    (wire # NoFrame /\ WireOpcode >= 8 /\ (WireFin = 0 \/ WireLength7 >= 126)) =>
        /\ WireLength7 >= 126 => Aborted
        /\ ~ReadingFrame => stream_closed
        /\ read_callback # "_on_frame_start"
        /\ HasFrame(acts) => Aborted /\ OnlyClosed(Handled(acts))
        /\ \A i \in 1..Len(acts) :
              /\ acts[i].a # "on_pong"
              /\ ~(acts[i].a = "write" /\ acts[i].op = 10)
        /\ close_code = None /\ close_reason = NoneBytes

\* C11, reached: the payload of a ping with fin=0 has been read and the
\* connection is aborted.
C11_Witness ==
    /\ wire # NoFrame
    /\ WireOpcode = 9 /\ WireFin = 0
    /\ HasFrame(acts)
    /\ Aborted


\* ------------------------------------------------------- the frames written
\* The frames written by the step that led to this state.
Writes == { i \in 1..Len(acts) : acts[i].a = "write" }

\* C12, as stated: every control frame the engine writes (a ping, a pong, a
\* close frame) is final and carries at most 125 bytes of payload, whatever
\* data the application passed to ping and whatever reason to close.
C12_Original ==
    \A i \in Writes :
        acts[i].op >= 8 =>
            /\ BitAnd(acts[i].frame[1], FIN) = FIN
            /\ Len(acts[i].data) <= MaxControlPayload

\* The parts of a written frame: the mask bit, the 7-bit length, the bytes of
\* the extended length, and what follows the length.
FrameMaskBit(f) == BitAnd(f[2], 128)
FrameLength7(f) == BitAnd(f[2], 127)
FrameExtended(f) ==
    IF FrameLength7(f) = 126 THEN 2 ELSE IF FrameLength7(f) = 127 THEN 8 ELSE 0
FrameLength(f) ==
    IF FrameExtended(f) = 0 THEN FrameLength7(f)
    ELSE UnpackBE(SubSeq(f, 3, 2 + FrameExtended(f)))
AfterLength(f) == From(f, 2 + FrameExtended(f))

\* C13: every frame a server connection writes has the mask bit 0 and its
\* payload right after the length, with no masking key; every frame a client
\* connection writes has the mask bit 1, then a masking key of four bytes, then
\* the payload masked with that key.
C13_MaskByRole ==
    \A i \in Writes :
        LET f == acts[i].frame
            rest == AfterLength(f)
        IN  /\ FrameLength(f) = Len(acts[i].data)
            /\ ~mask_outgoing =>
                  /\ FrameMaskBit(f) = 0
                  /\ rest = acts[i].data
            /\ mask_outgoing =>
                  /\ FrameMaskBit(f) = 128
                  /\ Len(rest) = 4 + Len(acts[i].data)
                  /\ websocket_mask(SubSeq(rest, 1, 4), From(rest, 4)) = acts[i].data
                  /\ From(rest, 4) = websocket_mask(SubSeq(rest, 1, 4), acts[i].data)

\* C13, reached: a client connection has written a text frame whose payload is
\* two bytes, under a key that changes them.
C13_Witness ==
    /\ mask_outgoing
    /\ \E i \in Writes :
          /\ acts[i].op = 1
          /\ acts[i].data = << 195, 169 >>
          /\ From(AfterLength(acts[i].frame), 4) # acts[i].data

\* The frame on the wire carries a reserved bit that no negotiated extension
\* defines: permessage-deflate defines RSV1 and nothing else.
UndefinedReserved ==
    \/ BitAnd(WireReserved, RSV2 + RSV3) # 0
    \/ ~decompressor /\ WireReserved # 0

\* C14: a frame with a reserved bit that no negotiated extension defines (any
\* of the three with no extension, RSV2 and RSV3 with permessage-deflate)
\* aborts the connection on its header: none of its length, key or payload is
\* read, no handler callback runs for it and nothing is written.
C14_UndefinedReservedAborts ==
    (wire # NoFrame /\ UndefinedReserved) =>
        /\ Aborted
        /\ read_callback = "none" /\ reads = 0
        /\ ~HasFrame(acts)
        /\ \A i \in 1..Len(acts) :
              /\ acts[i].a \notin {"write", "on_pong", "read"}
              /\ acts[i].a = "on_message" => acts[i].data = NoneBytes

\* C14, reached: permessage-deflate is negotiated and the header of a frame
\* with RSV1 and RSV2 has been read.
C14_Witness ==
    /\ decompressor
    /\ wire # NoFrame
    /\ WireReserved = RSV1 + RSV2
    /\ WireOpcode = 2
    /\ acts # << >> /\ acts[1].a = "stream.close"

\* ---------------------------------------------------------- the handshake
\* The tokens of the request's Connection header, in lower case.
ConnectionTokens ==
    LET parts == split(headers_get(request.connection, ""))
    IN  { lower(strip(parts[i])) : i \in 1..Len(parts) }

\* The request carries an origin, in Origin or in Sec-WebSocket-Origin.
OriginPresent == request.origin # Missing \/ request.sec_origin # Missing

\* The request the claim describes: Upgrade: websocket, Connection with the
\* token upgrade, a version of 7, 8 or 13, Host and Sec-WebSocket-Key not
\* empty, and an origin, if any, that check_origin accepts.
GoodRequest ==
    /\ lower(headers_get(request.upgrade, "")) = "websocket"
    /\ "upgrade" \in ConnectionTokens
    /\ request.version \in {"7", "8", "13"}
    /\ Truthy(request.host)
    /\ Truthy(request.key)
    /\ OriginPresent => request.origin_ok

\* C15: the server writes the 101 response, calls open and reads or
\* dispatches frames only for a request with Upgrade: websocket, a Connection
\* header holding the token upgrade, Sec-WebSocket-Version 7, 8 or 13,
\* non-empty Host and Sec-WebSocket-Key and, when it carries an origin, an
\* origin check_origin accepted; for every other request no read is ever
\* issued and no frame is read or dispatched.
C15_OpenOnlyAfterValidHandshake ==
    ~GoodRequest =>
        /\ response # 101
        /\ reads = 0 /\ read_callback = "none"
        /\ nrecv = 0 /\ cur = << >>
        /\ \A i \in 1..Len(acts) :
              acts[i].a \notin {"open", "read", "frame", "on_message", "on_pong",
                                "write"}

\* C15, reached: a request of version 8 with an origin has been answered with
\* 101, open has run and a frame of the peer has been dispatched.
C15_Witness ==
    /\ request \in Requests
    /\ request.version = "8"
    /\ request.origin # Missing
    /\ response = 101
    /\ nrecv = 1
    /\ \E i \in 1..Len(acts) : acts[i].a = "on_message"

\* The handler has run get on the request.
GetDone == detached \/ response # None

\* A header the handshake needs is missing or malformed.
BadHeaders ==
    \/ lower(headers_get(request.upgrade, "")) # "websocket"
    \/ "upgrade" \notin ConnectionTokens
    \/ request.version \notin {"7", "8", "13"}
    \/ ~Truthy(request.host)
    \/ ~Truthy(request.key)

\* C16, as stated: a request whose handshake headers are malformed or missing
\* is answered by force-closing the socket, with no byte sent to the peer.
C16_Original ==
    (BadHeaders /\ GetDone) => (response = None /\ stream_closed)

\* The request is a WebSocket upgrade of a supported version from an accepted
\* origin, and lacks Host or Sec-WebSocket-Key, or offers permessage-deflate
\* with a parameter the engine does not know to a handler that compresses.
MalformedUpgrade ==
    /\ lower(headers_get(request.upgrade, "")) = "websocket"
    /\ "upgrade" \in ConnectionTokens
    /\ request.version \in {"7", "8", "13"}
    /\ OriginPresent => request.origin_ok
    /\ \/ ~Truthy(request.host)
       \/ ~Truthy(request.key)
       \/ request.extensions = DeflateBogus /\ request.compression_options

\* C16, amended: when get has handled a malformed upgrade request, the
\* connection is aborted (stream closed, both sides terminated), no response
\* and no frame has been written, no read was issued, and the close
\* notification on_close follows.
C16_MalformedUpgradeAbortsSilently ==
    /\ [](MalformedUpgrade /\ GetDone =>
            /\ response = None
            /\ Aborted
            /\ reads = 0 /\ nrecv = 0
            /\ \A i \in 1..Len(acts) :
                  acts[i].a \notin {"http", "write", "open", "read"}
            /\ close_callback_run => on_close_called)
    /\ (MalformedUpgrade /\ GetDone) ~> on_close_called

\* C16, reached: a request without Sec-WebSocket-Key was aborted and on_close
\* has run.
C16_Witness ==
    /\ request \in Requests
    /\ MalformedUpgrade
    /\ request.key = Missing
    /\ Truthy(request.host)
    /\ response = None
    /\ stream_closed
    /\ on_close_called

\* ------------------------------------------------- exceptions of the handler
\* The effects of a step that must not follow an abort: a frame read or
\* dispatched, a frame written, a read issued.
Engaged(e) ==
    \/ e.a \in {"read", "frame", "on_pong", "open", "write", "http"}
    \/ e.a = "on_message" /\ e.data # NoneBytes

CloseFrameThenClose(a) ==
    \E i, j \in 1..Len(a) :
        /\ i < j
        /\ a[i].a = "write" /\ a[i].op = 8
        /\ a[j].a = "stream.close"

\* C18, as stated: when the engine finds a protocol violation in a frame of an
\* open connection (here a reserved bit no extension defines, or a control
\* frame with a length of 126 or more) while the stream is open and it has
\* sent no close frame, it writes a close frame before it closes the socket.
C18_Original ==
    [][ (/\ ~stream_closed /\ ~server_terminated
         /\ nrecv' = nrecv + 1
         /\ wire' # NoFrame
         /\ UndefinedReserved' \/ (WireOpcode' >= 8 /\ WireLength7' >= 126))
        => CloseFrameThenClose(acts') ]_vars

\* ------------------------------------------------------- the read pipeline
\* The reads issued in the effects a.
ReadsIn(a) == { i \in 1..Len(a) : a[i].a = "read" }

\* An exception left the step whose effects are a.
Raised(a) == \E i \in 1..Len(a) : a[i].a = "raise"

MessageBytes(call) == IF call.flags = 1 THEN Utf8Encode(call.data) ELSE call.data

\* C20: a write_message(message, binary) on an open connection writes exactly
\* one frame: final, of opcode 2 when binary and 1 otherwise, with RSV1 set and
\* the compressed message as payload when a compressor was negotiated, with
\* RSV1 clear and the message as payload when none was, and with RSV2 and
\* RSV3 clear; the first byte on the wire says the same.
C20_WriteMessageOneFrame ==
    [][(/\ ws_connection /\ ~stream_closed
        /\ acts' # << >>
        /\ acts'[1].a = "write_message")
       => /\ Len(acts') = 2
          /\ acts'[2].a = "write"
          /\ acts'[2].fin = 1
          /\ acts'[2].op = (IF acts'[1].op = 1 THEN 2 ELSE 1)
          /\ acts'[2].flags = (IF compressor THEN RSV1 ELSE 0)
          /\ acts'[2].data = (IF compressor THEN compress(MessageBytes(acts'[1]))
                              ELSE MessageBytes(acts'[1]))
          /\ acts'[2].frame[1] = FIN + acts'[2].flags + acts'[2].op
          /\ BitAnd(acts'[2].frame[1], RSV2 + RSV3) = 0]_vars

\* C20, reached: with permessage-deflate negotiated, write_message of the
\* unicode string e-acute with binary set has written a frame.
C20_Witness ==
    /\ compressor
    /\ Len(acts) = 2
    /\ acts[1].a = "write_message" /\ acts[1].op = 1 /\ acts[1].data = << 233 >>
    /\ acts[2].a = "write" /\ acts[2].data = << 58, 188, 18, 0 >>

\* ------------------------------------------------- writing when closed
\* C21, as stated: once the connection has been closed (the handler called
\* close, the peer's close frame was handled, the engine aborted, or the
\* socket closed), a call of WebSocketHandler.write_message raises
\* WebSocketClosedError and writes nothing.
C21_Original ==
    [][(/\ ~mask_outgoing
        /\ ~ws_connection \/ stream_closed
        /\ acts' # << >>
        /\ acts'[1].a = "write_message")
       => /\ Raised(acts')
          /\ \A i \in 1..Len(acts') : acts'[i].a # "write"]_vars

\* ------------------------------------------------- the client's handshake
\* The answer of the server upgrades the connection: status 101, Upgrade:
\* websocket and Connection: upgrade in any case of the letters, the accept
\* value of the client's key, and no extension the client did not enable.
Upgrades(req, headers) ==
    /\ headers.code = 101
    /\ headers.upgrade \in {"websocket", "WebSocket"}
    /\ headers.connection \in {"upgrade", "Upgrade"}
    /\ headers.accept = compute_accept_value(req.key)
    /\ \/ headers.extensions = Missing
       \/ headers.extensions = "permessage-deflate" /\ req.compression_options

\* C22: the connect future of a client is resolved with the connection only
\* if the server answered 101 with Upgrade: websocket, Connection: upgrade,
\* the Sec-WebSocket-Accept of the client's key and no extension the client
\* did not enable; while it is not resolved with the connection no frame of
\* the server is read and no message of the server is delivered.
C22_ConnectOnlyOnUpgrade ==
    /\ connect_future = "result" =>
          /\ server_response # NoResponse
          /\ Upgrades(request, server_response)
    /\ connect_future # "result" =>
          /\ nrecv = 0 /\ reads = 0
          /\ \A i \in 1..Len(acts) :
                acts[i].a = "on_message" => acts[i].data = NoneBytes
          /\ \A i \in 1..Len(arrived) : arrived[i] = NoneBytes

\* C22, reached: an answer that upgrades, with permessage-deflate, has
\* resolved the connect future of a client with compression options, and a
\* message of the server was delivered.
C22_Witness ==
    /\ connect_future = "result"
    /\ server_response # NoResponse
    /\ server_response.extensions = "permessage-deflate"
    /\ decompressor
    /\ arrived = << << 97 >> >>

\* An answer with status 101 and the accept value of another key has failed
\* the connect future, and the close callback has run.
C22_Refused ==
    /\ connect_future = "exception"
    /\ server_response # NoResponse
    /\ server_response.code = 101
    /\ server_response.upgrade = "websocket"
    /\ server_response.connection = "Upgrade"
    /\ server_response.accept # compute_accept_value(request.key)
    /\ server_response.extensions = Missing
    /\ stream_closed /\ close_callback_run

\* ------------------------------------------------- read_message
\* The futures of read_message that are resolved, and their values in the
\* order of the calls.
Done == { i \in 1..Len(futures) : futures[i].done }
Values == [ i \in 1..Cardinality(Done) |-> futures[i].value ]

\* The step handles a text frame of the server on a connection that has not
\* seen a close frame.
TextArrives ==
    /\ ~client_terminated /\ ~stream_closed
    /\ acts' # << >>
    /\ acts'[1].a = "frame" /\ acts'[1].op = 1 /\ acts'[1].fin = 1

\* C23: on a client connection without on_message_callback every message is
\* handed over in the order of arrival and exactly once, whatever the order
\* of arrivals and read_message calls: the values of the resolved futures in
\* the order of the calls, followed by the queue, are the messages that have
\* arrived; only the newest future can be pending, and then nothing is
\* queued; a message that arrives joins that sequence at its end.
C23_ReadsInArrivalOrder ==
    /\ [](~on_message_callback =>
            /\ Done = 1..Cardinality(Done)
            /\ Cardinality(Done) >= Len(futures) - 1
            /\ Cardinality(Done) < Len(futures) =>
                  read_future = Len(futures) /\ read_queue = << >>
            /\ Cardinality(Done) = Len(futures) => read_future = 0
            /\ Values \o read_queue = arrived)
    /\ [][~on_message_callback /\ TextArrives =>
            arrived' = Append(arrived, acts'[1].data)]_vars

\* C23, reached: "a", "b" and "a" have arrived, two reads have got "a" and
\* "b", and the third message is queued.
C23_Witness ==
    /\ ~on_message_callback
    /\ Len(futures) = 2
    /\ futures[1] = Resolved(<< 97 >>)
    /\ futures[2] = Resolved(<< 98 >>)
    /\ read_queue = << << 97 >> >>
    /\ arrived = << << 97 >>, << 98 >>, << 97 >> >>

\* C24, as stated: once the connection of a client without callback is
\* closed, every future read_message has returned or returns is resolved in
\* the end (with the messages queued before the closure, then with None);
\* none is left pending.
C24_Original ==
    [](~on_message_callback /\ stream_closed =>
         <>(\A i \in 1..Len(futures) : futures[i].done))

\* ------------------------------------------------------------- locks.py
\* _garbage_collect clears the waiters that are done after more than this
\* many timeouts.
GcThreshold == 100

\* The timeout of an acquire or a wait: None, a zero (0 or timedelta(0)), or
\* a deadline.
Deadline == 1
Timeouts == { None, 0, Deadline }

\* "if timeout:" - None and zero are no timeout.
HasTimeout(timeout) == timeout # None /\ timeout # 0

\* The synchronisation object at this moment; woke lists the futures the
\* call has resolved, raised the exception it has raised to its caller.
LockCur ==
    [ _waiters |-> _waiters,
      _timeouts |-> _timeouts,
      _value |-> _value,
      waiter_futures |-> waiter_futures,
      releases |-> releases,
      woke |-> << >>,
      raised |-> "none" ]

LockCommit(s, op, arg) ==
    /\ _waiters' = s._waiters
    /\ _timeouts' = s._timeouts
    /\ _value' = s._value
    /\ waiter_futures' = s.waiter_futures
    /\ releases' = s.releases
    /\ lock_act' = [ op |-> op, arg |-> arg, woke |-> s.woke,
                     raised |-> s.raised ]
    /\ UNCHANGED << kind, _initial_value >>
    /\ UNCHANGED conn_vars
    /\ UNCHANGED loop_vars
    /\ UNCHANGED web_vars
    /\ UNCHANGED digest_vars

\* Future(): pending, resolved by no call yet, without a timeout handle.
NewFuture == [ state |-> "pending", sets |-> 0, timer |-> "none" ]

\* Future.done
done(s, w) == s.waiter_futures[w].state # "pending"

\* Future.set_result and Future.set_exception: the future is resolved and its
\* done callback removes the timeout that is still scheduled.
set_done(s, w, result) ==
    [s EXCEPT !.waiter_futures[w] =
                 [ state |-> result, sets |-> @.sets + 1,
                   timer |-> IF @.timer = "scheduled" THEN "removed"
                             ELSE @.timer ],
              !.woke = Append(@, w)]

\* io_loop.add_timeout(timeout, on_timeout), with the done callback that
\* removes it.
schedule(s, w) == [s EXCEPT !.waiter_futures[w].timer = "scheduled"]

\* The live waiters of a deque, in its order.
RECURSIVE Live(_, _)
Live(s, q) ==
    IF q = << >> THEN << >>
    ELSE IF done(s, Head(q)) THEN Live(s, Tail(q))
    ELSE << Head(q) >> \o Live(s, Tail(q))

\* _TimeoutGarbageCollector._garbage_collect
_garbage_collect(s) ==
    IF s._timeouts + 1 > GcThreshold
    THEN [s EXCEPT !._timeouts = 0, !._waiters = Live(s, s._waiters)]
    ELSE [s EXCEPT !._timeouts = @ + 1]

\* The loop of Semaphore.release that wakes a waiter and keeps the unit.
RECURSIVE wake_keeping_unit(_)
wake_keeping_unit(s) ==
    IF s._waiters = << >> THEN s
    ELSE LET waiter == Head(s._waiters)
             s1 == [s EXCEPT !._waiters = Tail(@)]
         IN  IF ~done(s1, waiter) THEN set_done(s1, waiter, "granted")
             ELSE wake_keeping_unit(s1)

\* The loop of Semaphore.release: waiters are popped up to the first that is
\* not done, which takes the unit.
RECURSIVE wake(_)
wake(s) ==
    IF s._waiters = << >> THEN s
    ELSE LET waiter == Head(s._waiters)
             s1 == [s EXCEPT !._waiters = Tail(@)]
         IN  IF ~done(s1, waiter)
             THEN set_done([s1 EXCEPT !._value = @ - 1], waiter, "granted")
             ELSE wake(s1)

\* Semaphore.release that wakes the first waiter of the deque, done or not.
Semaphore_release_first(s) ==
    LET s1 == [s EXCEPT !._value = @ + 1, !.releases = @ + 1]
    IN  IF s1._waiters = << >> THEN s1
        ELSE set_done([s1 EXCEPT !._waiters = Tail(@), !._value = @ - 1],
                      Head(s1._waiters), "granted")

\* Semaphore.release
Semaphore_release(s) ==
    wake([s EXCEPT !._value = @ + 1, !.releases = @ + 1])

\* Semaphore.acquire that takes a unit at counter 0 too.
Semaphore_acquire_any(s, timeout) ==
    LET waiter == Len(s.waiter_futures) + 1
        s1 == [s EXCEPT !.waiter_futures = Append(@, NewFuture)]
    IN  set_done([s1 EXCEPT !._value = @ - 1], waiter, "granted")

\* Semaphore.acquire
Semaphore_acquire(s, timeout) ==
    LET waiter == Len(s.waiter_futures) + 1
        s1 == [s EXCEPT !.waiter_futures = Append(@, NewFuture)]
    IN  IF s1._value > 0
        THEN set_done([s1 EXCEPT !._value = @ - 1], waiter, "granted")
        ELSE LET s2 == [s1 EXCEPT !._waiters = Append(@, waiter)]
             IN  IF HasTimeout(timeout) THEN schedule(s2, waiter) ELSE s2

\* on_timeout of Semaphore.acquire, run by the IOLoop
acquire_on_timeout(s, w) ==
    _garbage_collect(
        set_done([s EXCEPT !.waiter_futures[w].timer = "fired"], w,
                 "TimeoutError"))

\* BoundedSemaphore.release that releases past the initial value.
BoundedSemaphore_release_unbounded(s) == Semaphore_release(s)

\* BoundedSemaphore.release
BoundedSemaphore_release(s) ==
    IF s._value >= _initial_value THEN [s EXCEPT !.raised = "ValueError"]
    ELSE Semaphore_release(s)

\* Lock.acquire
Lock_acquire(s, timeout) == Semaphore_acquire(s, timeout)

\* Lock.release: the ValueError of the BoundedSemaphore becomes RuntimeError.
Lock_release(s) ==
    LET s1 == BoundedSemaphore_release(s)
    IN  IF s1.raised = "ValueError" THEN [s1 EXCEPT !.raised = "RuntimeError"]
        ELSE s1

\* Condition.wait
Condition_wait(s, timeout) ==
    LET waiter == Len(s.waiter_futures) + 1
        s1 == [s EXCEPT !.waiter_futures = Append(@, NewFuture),
                        !._waiters = Append(@, waiter)]
    IN  IF HasTimeout(timeout) THEN schedule(s1, waiter) ELSE s1

\* on_timeout of Condition.wait, run by the IOLoop
wait_on_timeout(s, w) ==
    _garbage_collect(
        set_done([s EXCEPT !.waiter_futures[w].timer = "fired"], w, "False"))

\* The first loop of Condition.notify: waiters are popped while n is not zero,
\* and those that are not done are kept to be woken.
RECURSIVE pick(_, _, _)
pick(s, n, waiters) ==
    IF n = 0 \/ s._waiters = << >> THEN << s, waiters >>
    ELSE LET waiter == Head(s._waiters)
             s1 == [s EXCEPT !._waiters = Tail(@)]
         IN  IF ~done(s1, waiter) THEN pick(s1, n - 1, Append(waiters, waiter))
             ELSE pick(s1, n, waiters)

\* The second loop of Condition.notify: each waiter kept is resolved.
RECURSIVE set_all(_, _)
set_all(s, waiters) ==
    IF waiters = << >> THEN s
    ELSE set_all(set_done(s, Head(waiters), "True"), Tail(waiters))

\* Condition.notify that wakes the waiters it pops, done or not.
Condition_notify_done_too(s, n) ==
    LET k == IF n < Len(s._waiters) THEN n ELSE Len(s._waiters)
    IN  set_all([s EXCEPT !._waiters = SubSeq(@, k + 1, Len(@))],
                SubSeq(s._waiters, 1, k))

\* Condition.notify
Condition_notify(s, n) ==
    LET p == pick(s, n, << >>)
    IN  set_all(p[1], p[2])

\* Condition.notify_all
Condition_notify_all(s) == Condition_notify(s, Len(s._waiters))

\* No connection: the program of this specification only has its
\* synchronisation object.
NoConnection ==
    /\ mask_outgoing = FALSE
    /\ decompressor = FALSE
    /\ client_terminated = FALSE
    /\ server_terminated = FALSE
    /\ final_frame = 0
    /\ frame_opcode = None
    /\ frame_opcode_is_control = 0
    /\ masked_frame = FALSE
    /\ frame_mask = NoneBytes
    /\ frame_length = None
    /\ frame_compressed = FALSE
    /\ fragmented_message_buffer = NoneBytes
    /\ fragmented_message_opcode = None
    /\ waiting = None
    /\ stream_closed = FALSE
    /\ read_callback = "none"
    /\ close_callback_run = FALSE
    /\ reads = 0
    /\ wire = NoFrame
    /\ timeouts = {}
    /\ timeouts_added = 0
    /\ ws_connection = FALSE
    /\ close_code = None
    /\ close_reason = NoneBytes
    /\ on_close_called = FALSE
    /\ request = NoRequest
    /\ response = None
    /\ detached = FALSE
    /\ on_message_callback = TRUE
    /\ connect_future = "result"
    /\ read_future = 0
    /\ read_queue = << >>
    /\ server_response = NoResponse
    /\ futures = << >>
    /\ arrived = << >>
    /\ acts = << >>
    /\ nrecv = 0
    /\ cur = << >>
    /\ delivered = << >>
    /\ on_close_seen = << >>

\* A Semaphore or a BoundedSemaphore made with a value, or a Lock, whose
\* BoundedSemaphore has the value 1; nobody waits.  The count of timeouts is
\* 0, or has come to the threshold over earlier waiters that are gone.
InitSemaphore ==
    /\ NoDigests
    /\ NoConnection
    /\ NoLoopback
    /\ NoWeb
    /\ kind \in {"Semaphore", "BoundedSemaphore", "Lock"}
    /\ _initial_value \in (IF kind = "Lock" THEN {1} ELSE 0..MaxValue)
    /\ _value = _initial_value
    /\ _waiters = << >>
    /\ _timeouts \in {0, GcThreshold}
    /\ waiter_futures = << >>
    /\ releases = 0
    /\ lock_act = [ op |-> "none" ]

\* A coroutine calls acquire.
Acquire ==
    /\ Len(waiter_futures) < MaxWaiters
    /\ \E timeout \in Timeouts :
          LockCommit(IF kind = "Lock" THEN Lock_acquire(LockCur, timeout)
                     ELSE Semaphore_acquire(LockCur, timeout),
                     "acquire", timeout)

\* A coroutine calls release.
Release ==
    /\ _value < MaxValue + 1
    /\ LockCommit(CASE kind = "Lock" -> Lock_release(LockCur)
                     [] kind = "BoundedSemaphore" ->
                            BoundedSemaphore_release(LockCur)
                     [] kind = "Semaphore" -> Semaphore_release(LockCur),
                  "release", None)

\* The deadline of a waiter comes: the IOLoop runs the timeout that is still
\* scheduled.
AcquireTimeout ==
    \E w \in 1..Len(waiter_futures) :
       /\ waiter_futures[w].timer = "scheduled"
       /\ LockCommit(acquire_on_timeout(LockCur, w), "timeout", w)

NextSemaphore ==
    \/ Acquire
    \/ Release
    \/ AcquireTimeout

\* The IOLoop runs a timeout once its deadline has passed.
SemaphoreSpec ==
    /\ InitSemaphore
    /\ [][NextSemaphore]_vars
    /\ WF_vars(AcquireTimeout)

\* A Condition; nobody waits.
InitCondition ==
    /\ NoDigests
    /\ NoConnection
    /\ NoLoopback
    /\ NoWeb
    /\ kind = "Condition"
    /\ _initial_value = 0
    /\ _value = 0
    /\ _waiters = << >>
    /\ _timeouts \in {0, GcThreshold}
    /\ waiter_futures = << >>
    /\ releases = 0
    /\ lock_act = [ op |-> "none" ]

\* A coroutine calls wait.
Wait ==
    /\ Len(waiter_futures) < MaxWaiters
    /\ \E timeout \in Timeouts :
          LockCommit(Condition_wait(LockCur, timeout), "wait", timeout)

\* A coroutine calls notify(n).
Notify ==
    \E n \in 0..MaxWaiters :
       LockCommit(Condition_notify(LockCur, n), "notify", n)

\* A coroutine calls notify_all.
NotifyAll == LockCommit(Condition_notify_all(LockCur), "notify_all", None)

\* The deadline of a waiter comes.
WaitTimeout ==
    \E w \in 1..Len(waiter_futures) :
       /\ waiter_futures[w].timer = "scheduled"
       /\ LockCommit(wait_on_timeout(LockCur, w), "timeout", w)

NextCondition ==
    \/ Wait
    \/ Notify
    \/ NotifyAll
    \/ WaitTimeout

ConditionSpec ==
    /\ InitCondition
    /\ [][NextCondition]_vars
    /\ WF_vars(WaitTimeout)

\* ------------------------------------------------------------- Lock
\* The futures of acquire that were resolved with the unit, and those that
\* are pending.
Granted == { w \in 1..Len(waiter_futures) : waiter_futures[w].state = "granted" }
Waiting == { w \in 1..Len(waiter_futures) : waiter_futures[w].state = "pending" }

\* C25: a Lock begins unlocked and is held by at most one coroutine: the
\* acquires granted and not yet released are at most one, and exactly one
\* while the Lock is locked; a step grants at most one acquire, and grants it
\* in the acquire itself on an unlocked Lock or in a release of the locked
\* Lock, so between two grants there is a release.
C25_LockMutualExclusion ==
    /\ [](kind = "Lock" =>
            /\ _value \in {0, 1}
            /\ waiter_futures = << >> => _value = 1
            /\ Cardinality(Granted) - releases = 1 - _value)
    /\ [][kind = "Lock" =>
            /\ Cardinality(Granted' \ Granted) <= 1
            /\ \A w \in Granted' \ Granted :
                  \/ /\ lock_act'.op = "acquire"
                     /\ w = Len(waiter_futures')
                     /\ _value = 1 /\ _value' = 0
                  \/ /\ lock_act'.op = "release"
                     /\ releases' = releases + 1
                     /\ _value = 0 /\ _value' = 0]_vars

\* C25, reached: the first acquire of a Lock was granted at once, the second
\* timed out, and a release has handed the Lock to the third.
C25_Witness ==
    /\ kind = "Lock"
    /\ Len(waiter_futures) = 3
    /\ waiter_futures[1].state = "granted"
    /\ waiter_futures[2].state = "TimeoutError"
    /\ waiter_futures[3].state = "granted"
    /\ lock_act.op = "release" /\ lock_act.woke = << 3 >>
    /\ releases = 1 /\ _value = 0

\* ------------------------------------------------------------- release
\* The acquire that has waited longest among those still waiting: futures
\* are numbered in the order of the calls.
Longest == CHOOSE w \in Waiting : \A v \in Waiting : w <= v

\* C26: a release of a Lock or a semaphore that returns while acquires are
\* waiting grants the unit to exactly one of them, the one that has waited
\* longest among those that have not timed out, and resolves no other
\* future.
C26_ReleaseWakesLongestWaiting ==
    [][(/\ lock_act'.op = "release"
        /\ lock_act'.raised = "none"
        /\ Waiting # {})
       => /\ Granted' = Granted \cup {Longest}
          /\ lock_act'.woke = << Longest >>
          /\ \A w \in 1..Len(waiter_futures) :
                w # Longest => waiter_futures'[w] = waiter_futures[w]]_vars

\* C26, reached: of three acquires waiting on a Semaphore the first has timed
\* out, and a release has granted the second and left the third waiting.
C26_Witness ==
    /\ kind = "Semaphore"
    /\ Len(waiter_futures) = 4
    /\ waiter_futures[2].state = "TimeoutError"
    /\ waiter_futures[3].state = "granted"
    /\ waiter_futures[4].state = "pending"
    /\ lock_act.op = "release" /\ lock_act.woke = << 3 >>
    /\ _waiters = << 4 >>

ReleaseRefused ==
    UNCHANGED << _value, _waiters, _timeouts, waiter_futures, releases >>

\* C28: release of a BoundedSemaphore whose counter is its initial value
\* raises ValueError, and release of an unlocked Lock raises RuntimeError;
\* the counter, the waiters and their futures stay as they were, so the
\* counter never exceeds the initial value and the Lock stays unlocked.
C28_ReleaseTooOftenRaises ==
    /\ [](kind \in {"BoundedSemaphore", "Lock"} => _value <= _initial_value)
    /\ [][/\ (/\ lock_act'.op = "release"
              /\ kind = "BoundedSemaphore"
              /\ _value = _initial_value)
             => lock_act'.raised = "ValueError" /\ ReleaseRefused
          /\ (/\ lock_act'.op = "release"
              /\ kind = "Lock"
              /\ _value = 1)
             => lock_act'.raised = "RuntimeError" /\ ReleaseRefused]_vars

\* C28, reached: a BoundedSemaphore made with 0 has an acquire waiting, and a
\* release has raised ValueError.
C28_Witness ==
    /\ kind = "BoundedSemaphore"
    /\ _initial_value = 0
    /\ _waiters = << 1 >> /\ 1 \in Waiting
    /\ lock_act.op = "release" /\ lock_act.raised = "ValueError"

\* A release of an unlocked Lock has raised RuntimeError after the Lock was
\* held and released.
C28_LockRefused ==
    /\ kind = "Lock"
    /\ releases = 1 /\ _value = 1
    /\ lock_act.op = "release" /\ lock_act.raised = "RuntimeError"

\* ------------------------------------------------------------- acquire timeouts
\* The call that has just returned is the acquire of future w with a timeout,
\* and the future is pending.
AcquiredWithTimeout(w) ==
    /\ lock_act.op = "acquire" /\ lock_act.arg # None
    /\ Len(waiter_futures) = w
    /\ w \in Waiting

\* C29, as stated: an acquire with a timeout is granted or fails with
\* TimeoutError in the end; a waiter that has timed out is never granted or
\* resolved again, and a release that finds no live waiter leaves the counter
\* incremented; a waiter that was granted has no timeout left to fire.
C29_Original ==
    /\ \A w \in 1..MaxWaiters :
          [](AcquiredWithTimeout(w) => <>(w \notin Waiting))
    /\ [](\A w \in 1..Len(waiter_futures) :
            /\ waiter_futures[w].state = "TimeoutError" =>
                  waiter_futures[w].timer = "fired" /\ waiter_futures[w].sets = 1
            /\ waiter_futures[w].state = "granted" =>
                  /\ waiter_futures[w].timer \in {"none", "removed"}
                  /\ waiter_futures[w].sets = 1)
    /\ [][/\ \A w \in 1..Len(waiter_futures) :
                waiter_futures[w].state = "TimeoutError" =>
                   waiter_futures'[w] = waiter_futures[w]
          /\ (/\ lock_act'.op = "release"
              /\ lock_act'.raised = "none"
              /\ Waiting = {})
             => _value' = _value + 1 /\ Granted' = Granted]_vars

\* ------------------------------------------------------------- Condition
\* The waiters that have not been resolved, the longest-waiting first.
LiveWaiters ==
    SelectSeq([ w \in 1..Len(waiter_futures) |-> w ],
              LAMBDA w : w \in Waiting)

\* The first n elements of a sequence, all of them if it has fewer.
FirstN(q, n) == SubSeq(q, 1, IF n < Len(q) THEN n ELSE Len(q))

\* The step resolves with True exactly the waiters of the sequence, in its
\* order, and touches no other future.
Notifies(q) ==
    /\ lock_act'.woke = q
    /\ \A w \in 1..Len(waiter_futures) :
          IF \E i \in 1..Len(q) : q[i] = w
          THEN waiter_futures'[w].state = "True"
          ELSE waiter_futures'[w] = waiter_futures[w]

AgainstDirection ==
    /\ HasFrame(acts')
    /\ masked_frame' = mask_outgoing

\* C35, as stated: a frame against the direction rule (unmasked from a client
\* to a server, masked from a server to a client) is not delivered to the
\* handler and aborts the connection: the step that reads it calls neither
\* on_message nor on_pong, writes nothing, and ends with the stream closed.
C35_Original ==
    [][AgainstDirection =>
         /\ \A i \in 1..Len(acts') :
               acts'[i].a \notin {"on_message", "on_pong", "write"}
         /\ stream_closed']_vars

\* ------------------------------------------------------------- on_close
\* The calls of on_close among the effects of a step.
OnCloseCalls(a) == { i \in 1..Len(a) : a[i].a = "on_close" }

\* C37: on_close is called exactly once for an upgraded connection whose
\* stream closes: once the stream taken over by the handler is closed,
\* on_close is called in the end; a step calls it at most once, only on a
\* closed stream and only if it had not been called, and what was called
\* stays called.
C37_OnCloseExactlyOnce ==
    /\ [](~mask_outgoing /\ detached /\ stream_closed => <>on_close_called)
    /\ [](on_close_called => stream_closed /\ close_callback_run)
    /\ [][/\ Cardinality(OnCloseCalls(acts')) <= 1
          /\ OnCloseCalls(acts') # {} =>
                ~on_close_called /\ on_close_called' /\ stream_closed'
          /\ on_close_called => on_close_called' /\ OnCloseCalls(acts') = {}]_vars

\* C37, reached: the handler had called close, the peer's close frame closed
\* the stream, and the close callback has called on_close with the status
\* code of the peer.
C37_Witness ==
    /\ ~mask_outgoing /\ detached
    /\ on_close_called /\ close_callback_run
    /\ OnCloseCalls(acts) # {}
    /\ waiting = None /\ timeouts_added = 1
    /\ close_code = 1000

\* ------------------------------------------------------------- one close frame
\* The close frames written and the timeouts added among the effects of a
\* step.
CloseWrites(a) == { i \in 1..Len(a) : a[i].a = "write" /\ a[i].op = 8 }
TimeoutsAdded(a) == { i \in 1..Len(a) : a[i].a = "add_timeout" }

\* C38: the engine writes at most one close frame on a connection and has at
\* most one grace timeout scheduled at a time: a step writes a close frame
\* at most once and only if none was written or given up before, which it
\* records for good in server_terminated; a step adds at most one timeout,
\* and only while none is scheduled.
C38_OneCloseFrameOneTimer ==
    /\ [](Cardinality(timeouts) <= 1)
    /\ [][/\ Cardinality(CloseWrites(acts')) <= 1
          /\ CloseWrites(acts') # {} =>
                ~server_terminated /\ server_terminated'
          /\ server_terminated => server_terminated'
          /\ Cardinality(TimeoutsAdded(acts')) <= 1
          /\ TimeoutsAdded(acts') # {} => timeouts = {} /\ waiting = None]_vars

\* C38, reached: the application closed the connection, which wrote a close
\* frame and added the timeout; the close frame of the peer has then been
\* handled without a second close frame, and the timeout removed.
C38_Witness ==
    /\ server_terminated /\ client_terminated
    /\ timeouts_added = 1 /\ timeouts = {}
    /\ HasFrame(acts) /\ FrameIn(acts).op = 8
    /\ CloseWrites(acts) = {}
    /\ \E i \in 1..Len(acts) : acts[i].a = "remove_timeout"

\* ------------------------------------------------------------- after the peer
\* The peer is marked terminated, or the frame received last was its close
\* frame.
PeerTerminated ==
    \/ client_terminated
    \/ cur # << >> /\ cur[Len(cur)].opcode = 8

\* C39: once the peer is terminated (its close frame was handled or the
\* connection was aborted) no read is pending, and no later step receives a
\* frame, calls on_pong or on_message with a message, writes a pong or asks
\* the stream for bytes.
C39_NothingAfterPeerTerminated ==
    /\ [](PeerTerminated => read_callback = "none" /\ reads = 0)
    /\ [][PeerTerminated =>
            \A i \in 1..Len(acts') :
               /\ acts'[i].a \notin {"frame", "read", "on_pong"}
               /\ acts'[i].a = "on_message" => acts'[i].data = NoneBytes
               /\ acts'[i].a = "write" => acts'[i].op # 10]_vars

\* C39, reached: the peer's close frame was handled (the reply was written
\* and the stream closed), and the step after it, the close callback of the
\* stream, has called on_close and nothing else.
C39_Witness ==
    /\ client_terminated /\ server_terminated /\ stream_closed
    /\ cur # << >> /\ cur[Len(cur)].opcode = 8
    /\ nrecv = 2 /\ close_code = 1000
    /\ on_close_called
    /\ acts # << >>
    /\ \A i \in 1..Len(acts) : acts[i].a = "on_close"

\* ------------------------------------------------------ the accept value
\* The 101 responses of a step's effects.
Upgraded(a) == { i \in 1..Len(a) : a[i].a = "http" /\ a[i].op = 101 }

\* C33: Sec-WebSocket-Accept is the base64 of the SHA-1 of the key followed
\* by 258EAFA5-E914-47DA-95CA-C5AB0DC85B11: the sample key of RFC 6455 gives
\* s3pPLMBiTxaQ9kYGzzhZRbK+xOo=, and the 101 response carries the value of
\* the key of the request it answers.
C33_AcceptValueOfRequestKey ==
    /\ [](/\ compute_accept_value(SampleKey) = "s3pPLMBiTxaQ9kYGzzhZRbK+xOo="
          /\ compute_accept_value(ZeroKey) = "ICX+Yqv66kxgM0FcWaLWlFLwTAI=")
    /\ [][\A i \in Upgraded(acts') :
             /\ request.key \in Range(WebSocketKeys)
             /\ acts'[i].data =
                  << b64encode(sha1(Codes(Characters(request.key) \o Magic))) >>]_vars

\* C33, reached: a request with the key of sixteen zero bytes was answered
\* with 101 and the accept value of that key.
C33_Witness ==
    /\ response = 101
    /\ \E i \in Upgraded(acts) : acts[i].data = << "ICX+Yqv66kxgM0FcWaLWlFLwTAI=" >>

\* ------------------------------------------------- writer against reader
\* A stream whose other end is an engine of the same class: the bytes one
\* _write_frame produces are what the read pipeline is given, read by read.

\* Payloads of n bytes, and the lengths around the three length forms.
Payload(n) == [i \in 1..n |-> (31 * i) % 251]
RoundTripLengths == {0, 1, 125, 126, 127, 65535, 65536}

\* The calls of _write_frame: binary frames of every length, final or not;
\* text messages; pings and pongs as write_ping and _handle_message make them.
LoopFrames ==
    { [fin |-> f, opcode |-> 2, data |-> Payload(n)] :
        f \in BOOLEAN, n \in RoundTripLengths }
    \cup { [fin |-> TRUE, opcode |-> 1, data |-> Payload(n)] : n \in {0, 1} }
    \cup { [fin |-> TRUE, opcode |-> o, data |-> Payload(n)] :
             o \in {9, 10}, n \in {0, 125, 126} }

InitLoopback ==
    /\ NoDigests
    /\ Established
    /\ NoLocks
    /\ NoWeb
    /\ inbound = << >>
    /\ sent = << >>
    /\ read_size = 2

\* The n of the read_bytes(n, callback) a step leaves pending.
Asked(s) ==
    IF s.read_callback = "none" \/ ReadsIn(s.acts) = {} THEN 0
    ELSE s.acts[CHOOSE i \in ReadsIn(s.acts) :
                  \A j \in ReadsIn(s.acts) : j <= i].op

\* The bytes the pending read takes, and those it leaves.
Taken == SubSeq(inbound, 1, read_size)
Left == SubSeq(inbound, read_size + 1, Len(inbound))

LoopCommit(s) ==
    /\ CommitConnection(s)
    /\ inbound' = Left
    /\ read_size' = Asked(s)
    /\ UNCHANGED << sent, decompressor, server_response >>

\* The engine at the other end writes one frame.
LoopWrite ==
    /\ sent = << >>
    /\ ~stream_closed
    /\ \E f \in LoopFrames :
          LET s == _write_frame(Cur, f.fin, f.opcode, f.data, 0)
          IN  /\ CommitConnection(s)
              /\ sent' = << s.acts[Len(s.acts)] >>
              /\ inbound' = s.acts[Len(s.acts)].frame
              /\ UNCHANGED << read_size, decompressor, server_response >>

\* The pending read completes once the bytes it asked for are there.
ReadReady(callbacks) ==
    /\ sent # << >>
    /\ ~stream_closed
    /\ read_callback \in callbacks
    /\ Len(inbound) >= read_size

LoopFrameStart ==
    /\ ReadReady({"_on_frame_start"})
    /\ LoopCommit(_on_frame_start(
                      read_done([Cur EXCEPT !.wire = [NoFrame EXCEPT !.header = Taken]]),
                      Taken))

LoopFrameLength ==
    /\ ReadReady({"_on_frame_length_16", "_on_frame_length_64"})
    /\ LoopCommit(_on_frame_length(read_done([Cur EXCEPT !.wire.length = Taken]),
                                   Taken))

LoopMaskingKey ==
    /\ ReadReady({"_on_masking_key"})
    /\ LoopCommit(_on_masking_key(read_done([Cur EXCEPT !.wire.key = Taken]),
                                  Taken))

LoopFrameData ==
    /\ ReadReady({"_on_frame_data"})
    /\ \E raises \in BOOLEAN :
          LoopCommit(_on_frame_data(
                         Received(read_done([Cur EXCEPT !.wire.payload = Taken,
                                                        !.nrecv = @ + 1]),
                                  wire.header, Taken),
                         Taken, raises))

LoopMaskedFrameData ==
    /\ ReadReady({"_on_masked_frame_data"})
    /\ \E raises \in BOOLEAN :
          LoopCommit(_on_masked_frame_data(
                         Received(read_done([Cur EXCEPT !.wire.payload = Taken,
                                                        !.nrecv = @ + 1]),
                                  wire.header, websocket_mask(frame_mask, Taken)),
                         Taken, raises))

NextLoopback ==
    \/ LoopWrite
    \/ LoopFrameStart
    \/ LoopFrameLength
    \/ LoopMaskingKey
    \/ LoopFrameData
    \/ LoopMaskedFrameData

LoopbackSpec == InitLoopback /\ [][NextLoopback]_vars

\* The length of the frame written is in the form its payload calls for.
LengthFormOf(e) ==
    LET L == Len(e.data)
        code == e.frame[2] % 128
        key == IF e.frame[2] >= 128 THEN 4 ELSE 0
    IN  IF L < 126 THEN code = L /\ Len(e.frame) = 2 + key + L
        ELSE IF L <= 65535
        THEN /\ code = 126
             /\ 256 * e.frame[3] + e.frame[4] = L
             /\ Len(e.frame) = 4 + key + L
        ELSE /\ code = 127
             /\ UnpackBE(SubSeq(e.frame, 3, 10)) = L
             /\ Len(e.frame) = 10 + key + L

\* The frame written has been read to its end and is the frame received.
ReadBack(e) ==
    /\ inbound = << >>
    /\ cur # << >>
    /\ cur[Len(cur)].fin = e.fin
    /\ cur[Len(cur)].opcode = e.op
    /\ cur[Len(cur)].data = e.data

\* The reader is on its way through the frame written: its read is pending
\* and the bytes left are at least those it asked for.
Reading ==
    /\ ~stream_closed
    /\ read_callback # "none"
    /\ Len(inbound) >= read_size

\* C36: a frame _write_frame produced, of any payload length, masked or
\* not, carries its length in the form the length calls for, and the read
\* pipeline takes exactly its bytes and receives the same fin bit, opcode
\* and payload.
C36_Original ==
    sent # << >> =>
      /\ LengthFormOf(sent[1])
      /\ mask_outgoing <=> sent[1].frame[2] >= 128
      /\ IF nrecv = 1 THEN ReadBack(sent[1]) ELSE Reading

\* The same of the data frames only.
DataFramesReadBack ==
    (sent # << >> /\ sent[1].op < 8) =>
      /\ LengthFormOf(sent[1])
      /\ mask_outgoing <=> sent[1].frame[2] >= 128
      /\ IF nrecv = 1 THEN ReadBack(sent[1]) ELSE Reading

\* A binary frame of 65536 bytes, masked, has been written and read back.
LongFrameReadBack ==
    /\ sent # << >> /\ mask_outgoing /\ nrecv = 1
    /\ Len(sent[1].data) = 65536
    /\ ReadBack(sent[1])

\* ------------------------------------------------------- httpclient.py
\* AsyncHTTPClient as a pseudo-singleton per IOLoop.

\* At most this many instances are made.
MaxClients == 4

\* instance._instance_cache is the dictionary of the class, or None.
ClassCache == 0

ClientCur ==
    [clients |-> clients, _async_client_dict |-> _async_client_dict,
     returned |-> None, raised |-> FALSE]

\* Configurable.__new__: a new instance, initialize()d.
initialize(io_loop) ==
    [io_loop |-> io_loop, _closed |-> FALSE, _instance_cache |-> None]

AsyncHTTPClient_new(s, io_loop, force_instance) ==
    LET instance_cache == IF force_instance THEN None ELSE ClassCache
        k == Len(s.clients) + 1
    IN  IF instance_cache # None /\ s._async_client_dict[io_loop] # None
        THEN [s EXCEPT !.returned = s._async_client_dict[io_loop]]
        ELSE [s EXCEPT
                !.clients = Append(@, [initialize(io_loop) EXCEPT
                                          !._instance_cache = instance_cache]),
                !._async_client_dict =
                    IF instance_cache # None THEN [@ EXCEPT ![io_loop] = k]
                    ELSE @,
                !.returned = k]

\* close() that leaves the instance in the dictionary.
AsyncHTTPClient_close_kept(s, k) ==
    IF s.clients[k]._closed THEN s
    ELSE [s EXCEPT !.clients[k]._closed = TRUE]

AsyncHTTPClient_close(s, k) ==
    IF s.clients[k]._closed THEN s
    ELSE LET s1 == [s EXCEPT !.clients[k]._closed = TRUE]
             io_loop == s.clients[k].io_loop
         IN  IF s1.clients[k]._instance_cache = None THEN s1
             ELSE IF s1._async_client_dict[io_loop] # k
             THEN [s1 EXCEPT !.raised = TRUE]
             ELSE [s1 EXCEPT !._async_client_dict[io_loop] = None]

\* fetch() as far as its first check.
AsyncHTTPClient_fetch(s, k) ==
    IF s.clients[k]._closed THEN [s EXCEPT !.raised = TRUE] ELSE s

ClientCommit(s, act) ==
    /\ clients' = s.clients
    /\ _async_client_dict' = s._async_client_dict
    /\ client_act' = act
    /\ UNCHANGED << conn_vars, lock_vars, loop_vars, handler_vars,
                    context_vars, digest_vars >>

InitHTTPClient ==
    /\ NoDigests
    /\ NoConnection
    /\ NoLocks
    /\ NoLoopback
    /\ NoClients
    /\ NoHandler
    /\ NoContext

\* AsyncHTTPClient(io_loop) or AsyncHTTPClient(io_loop, force_instance=True).
NewClient ==
    \E io_loop \in IOLoops, force_instance \in BOOLEAN :
      LET s == AsyncHTTPClient_new(ClientCur, io_loop, force_instance)
      IN  /\ Len(s.clients) <= MaxClients
          /\ ClientCommit(s, [op |-> "new", io_loop |-> io_loop,
                              force_instance |-> force_instance,
                              instance |-> s.returned, raised |-> s.raised])
          /\ constructed' = IF force_instance THEN constructed
                            ELSE [constructed EXCEPT ![io_loop] = s.returned]

\* Some holder of an instance calls its close().
CloseClient ==
    \E k \in 1..Len(clients) :
      LET s == AsyncHTTPClient_close(ClientCur, k)
      IN  /\ ClientCommit(s, [op |-> "close", io_loop |-> clients[k].io_loop,
                              force_instance |-> FALSE,
                              instance |-> k, raised |-> s.raised])
          /\ UNCHANGED constructed

Fetch ==
    \E k \in 1..Len(clients) :
      LET s == AsyncHTTPClient_fetch(ClientCur, k)
      IN  /\ ClientCommit(s, [op |-> "fetch", io_loop |-> clients[k].io_loop,
                              force_instance |-> FALSE,
                              instance |-> k, raised |-> s.raised])
          /\ UNCHANGED constructed

NextHTTPClient ==
    \/ NewClient
    \/ CloseClient
    \/ Fetch

HTTPClientSpec == InitHTTPClient /\ [][NextHTTPClient]_vars

\* C31: a construction without force_instance returns the instance the
\* previous such construction on the same IOLoop returned unless that
\* instance has been closed since, and otherwise a new one; the instance a
\* construction returns is never a closed one, and the dictionary never
\* holds a closed instance; a construction with force_instance=True returns
\* a new instance and leaves the dictionary as it was, and no instance made
\* that way is ever in the dictionary.
C31_PseudoSingleton ==
    /\ [](\A l \in IOLoops :
            _async_client_dict[l] # None =>
              /\ _async_client_dict[l] \in 1..Len(clients)
              /\ ~clients[_async_client_dict[l]]._closed
              /\ clients[_async_client_dict[l]]._instance_cache # None
              /\ clients[_async_client_dict[l]].io_loop = l)
    /\ [][client_act'.op = "new" =>
            /\ ~client_act'.raised
            /\ client_act'.instance \in 1..Len(clients')
            /\ ~clients'[client_act'.instance]._closed
            /\ clients'[client_act'.instance].io_loop = client_act'.io_loop
            /\ client_act'.force_instance =>
                  /\ client_act'.instance = Len(clients) + 1
                  /\ _async_client_dict' = _async_client_dict
            /\ ~client_act'.force_instance =>
                  LET p == constructed[client_act'.io_loop]
                  IN  IF p # None /\ ~clients[p]._closed
                      THEN client_act'.instance = p /\ clients' = clients
                      ELSE client_act'.instance = Len(clients) + 1]_vars

\* C31, reached: on one IOLoop a first instance was made, shared and closed,
\* a second took its place, an instance was made with force_instance, and
\* the last construction returned the second instance again.
C31_Witness ==
    /\ client_act.op = "new" /\ ~client_act.force_instance
    /\ client_act.instance = 2
    /\ Len(clients) = 3
    /\ clients[1]._closed /\ clients[1]._instance_cache # None
    /\ clients[3]._instance_cache = None
    /\ \A k \in 1..3 : clients[k].io_loop = client_act.io_loop
    /\ _async_client_dict[client_act.io_loop] = 2

\* --------------------------------------------------------------- web.py
\* RequestHandler.write, flush and finish of an application without output
\* transforms (self._transforms is the empty list).

\* At most this many calls are made on the handler.
MaxCalls == 4

OK == 200
NotModified == 304

\* What write() and finish() are given: byte strings, a unicode string (its
\* code points), the empty dict, a list; and the chunk=None of finish().
Chunks ==
    { [type |-> "bytes", value |-> v] : v \in {<< >>, << 97 >>, << 98, 99 >>} }
    \cup { [type |-> "unicode", value |-> << 233 >>],
           [type |-> "dict", value |-> << >>],
           [type |-> "list", value |-> << >>] }

NoChunk == [type |-> "None", value |-> << >>]

\* escape.json_encode of the empty dict.
json_encode(value) == << 123, 125 >>

\* b"".join(parts)
RECURSIVE Join(_)
Join(parts) ==
    IF parts = << >> THEN << >> ELSE parts[1] \o Join(Tail(parts))

\* The headers of the response that finish() looks at (None or empty: not
\* set).  An entity tag is the hex digest of the bytes hashed, in double
\* quotes; the bytes hashed stand for their digest.
DefaultHeaders ==
    [Content_Type |-> "text/html; charset=UTF-8", Content_Length |-> None,
     Etag |-> << >>]

Quoted(bytes) == << 34 >> \o bytes \o << 34 >>
Star == << 42 >>

\* The requests: the method and the entity tags found in If-None-Match.
HandlerRequests ==
    [method : {"GET", "HEAD", "POST"},
     if_none_match : {<< >>, << Star >>, << Quoted(<< 97 >>) >>,
                      << Quoted(<< 98 >>), Quoted(<< >>) >>}]

\* RequestHandler.__init__ and clear(), and the transforms set by _execute.
RequestHandler(req) ==
    [made |-> TRUE, request |-> req,
     _headers_written |-> FALSE, _finished |-> FALSE,
     _headers |-> DefaultHeaders, _write_buffer |-> << >>,
     _status_code |-> OK]

HandlerCur ==
    [handler |-> handler, connection |-> http_connection, raised |-> "none"]

set_status(s, status_code) == [s EXCEPT !.handler._status_code = status_code]

RequestHandler_write(s, chunk) ==
    IF s.handler._finished THEN [s EXCEPT !.raised = "RuntimeError"]
    ELSE IF chunk.type \notin {"bytes", "unicode", "dict"}
    THEN [s EXCEPT !.raised = "TypeError"]
    ELSE LET s1 == IF chunk.type = "dict"
                   THEN [s EXCEPT !.handler._headers.Content_Type =
                                     "application/json; charset=UTF-8"]
                   ELSE s
             bytes == CASE chunk.type = "dict" -> json_encode(chunk.value)
                        [] chunk.type = "unicode" -> utf8(chunk.value)
                        [] OTHER -> chunk.value
         IN  [s1 EXCEPT !.handler._write_buffer = Append(@, bytes)]

\* flush() that does not record that the headers were written.
RequestHandler_flush_again(s) ==
    LET chunk == Join(s.handler._write_buffer)
        s1 == [s EXCEPT !.handler._write_buffer = << >>]
    IN  [s1 EXCEPT !.connection =
                 Append(@, [call |-> "write_headers",
                            status_code |-> s1.handler._status_code,
                            headers |-> s1.handler._headers,
                            chunk |-> IF s1.handler.request.method = "HEAD"
                                      THEN << >> ELSE << chunk >>])]

RequestHandler_flush(s) ==
    LET chunk == Join(s.handler._write_buffer)
        s1 == [s EXCEPT !.handler._write_buffer = << >>]
    IN  IF ~s1.handler._headers_written
        THEN [s1 EXCEPT
                !.handler._headers_written = TRUE,
                !.connection =
                    Append(@, [call |-> "write_headers",
                               status_code |-> s1.handler._status_code,
                               headers |-> s1.handler._headers,
                               chunk |-> IF s1.handler.request.method = "HEAD"
                                         THEN << >> ELSE << chunk >>])]
        ELSE IF s1.handler.request.method # "HEAD"
        THEN [s1 EXCEPT !.connection =
                 Append(@, [call |-> "write",
                            status_code |-> None, headers |-> DefaultHeaders,
                            chunk |-> << chunk >>])]
        ELSE s1

compute_etag(s) == Quoted(Join(s.handler._write_buffer))

set_etag_header(s) == [s EXCEPT !.handler._headers.Etag = compute_etag(s)]

check_etag_header(s) ==
    LET computed_etag == s.handler._headers.Etag
        etags == s.handler.request.if_none_match
    IN  IF computed_etag = << >> \/ etags = << >> THEN FALSE
        ELSE \/ etags[1] = Star
             \/ \E i \in 1..Len(etags) : etags[i] = computed_etag

_clear_headers_for_304(s) ==
    [s EXCEPT !.handler._headers.Content_Length = None,
              !.handler._headers.Content_Type = "none"]

\* finish() from "if not self._headers_written" to the Content-Length.
FinishHeaders(s) ==
    LET conditional ==
            /\ s.handler._status_code = OK
            /\ s.handler.request.method \in {"GET", "HEAD"}
            /\ s.handler._headers.Etag = << >>
        e == set_etag_header(s)
        s1 == IF ~conditional THEN s
              ELSE IF check_etag_header(e)
              THEN set_status([e EXCEPT !.handler._write_buffer = << >>],
                              NotModified)
              ELSE e
    IN  IF s1.handler._status_code = NotModified
        THEN IF s1.handler._write_buffer # << >>
             THEN [s1 EXCEPT !.raised = "AssertionError"]
             ELSE _clear_headers_for_304(s1)
        ELSE IF s1.handler._headers.Content_Length = None
        THEN [s1 EXCEPT !.handler._headers.Content_Length =
                           Len(Join(s1.handler._write_buffer))]
        ELSE s1

RequestHandler_finish(s, chunk) ==
    IF s.handler._finished THEN [s EXCEPT !.raised = "RuntimeError"]
    ELSE LET s1 == IF chunk # NoChunk THEN RequestHandler_write(s, chunk)
                   ELSE s
             s2 == IF s1.raised = "none" /\ ~s1.handler._headers_written
                   THEN FinishHeaders(s1) ELSE s1
             s3 == RequestHandler_flush(s2)
         IN  IF s2.raised # "none" THEN s2
             ELSE [s3 EXCEPT
                     !.connection =
                         Append(@, [call |-> "finish", status_code |-> None,
                                    headers |-> DefaultHeaders,
                                    chunk |-> << >>]),
                     !.handler._finished = TRUE]

HandlerCommit(s, op) ==
    /\ handler' = s.handler
    /\ http_connection' = s.connection
    /\ handler_act' = [op |-> op, raised |-> s.raised, n |-> handler_act.n + 1]
    /\ UNCHANGED << conn_vars, lock_vars, loop_vars, client_vars,
                    context_vars, digest_vars >>

InitHandler ==
    /\ NoDigests
    /\ NoConnection
    /\ NoLocks
    /\ NoLoopback
    /\ NoClients
    /\ NoContext
    /\ \E req \in HandlerRequests : handler = RequestHandler(req)
    /\ http_connection = << >>
    /\ handler_act = [op |-> "none", raised |-> "none", n |-> 0]

Calling == handler_act.n < MaxCalls

CallWrite ==
    /\ Calling
    /\ \E chunk \in Chunks :
          HandlerCommit(RequestHandler_write(HandlerCur, chunk), "write")

CallFlush ==
    /\ Calling
    /\ HandlerCommit(RequestHandler_flush(HandlerCur), "flush")

CallFinish ==
    /\ Calling
    /\ \E chunk \in Chunks \cup {NoChunk} :
          HandlerCommit(RequestHandler_finish(HandlerCur, chunk), "finish")

\* The application answers 304 of its own accord.
CallSetStatus ==
    /\ Calling
    /\ HandlerCommit(set_status(HandlerCur, NotModified), "set_status")

NextHandler ==
    \/ CallWrite
    \/ CallFlush
    \/ CallFinish
    \/ CallSetStatus

HandlerSpec == InitHandler /\ [][NextHandler]_vars

\* The calls on the connection that wrote the start-line and the headers.
HeaderWrites(c) == { i \in 1..Len(c) : c[i].call = "write_headers" }

\* C32: whatever write(), flush() and finish() calls are made, the
\* start-line and headers are written to the connection once and not again:
\* never twice, once as soon as a flush() or finish() has returned, and
\* nothing is written before them; and once finish() has completed, every
\* write() and finish() raises RuntimeError and writes nothing.
C32_HeadersOnceThenClosed ==
    /\ [](/\ Cardinality(HeaderWrites(http_connection)) <= 1
          /\ http_connection # << >> => HeaderWrites(http_connection) = {1}
          /\ handler._headers_written <=> http_connection # << >>
          /\ handler._finished => HeaderWrites(http_connection) = {1})
    /\ [][/\ (handler_act'.op \in {"flush", "finish"}
               /\ handler_act'.raised = "none")
                 => HeaderWrites(http_connection') = {1}
          /\ (handler._finished /\ handler_act'.op \in {"write", "finish"})
                 => /\ handler_act'.raised = "RuntimeError"
                    /\ http_connection' = http_connection
                    /\ handler' = handler]_vars

\* C32, reached: the headers went out with a first chunk on flush(), a
\* second chunk on finish(), and the write() after that raised.
C32_Witness ==
    /\ handler._finished
    /\ Len(http_connection) = 3
    /\ http_connection[1].call = "write_headers"
    /\ http_connection[1].chunk = << << 97 >> >>
    /\ http_connection[2].call = "write"
    /\ http_connection[2].chunk = << << 98, 99 >> >>
    /\ http_connection[3].call = "finish"
    /\ handler_act.op = "write" /\ handler_act.raised = "RuntimeError"

\* --------------------------------------------------------- httpserver.py
\* The context of a connection and the X- headers of its requests.

\* The stream and address handle_stream is given: the family of the socket
\* ("None": stream.socket is None) and the address (empty: None).
Sockets ==
    { [family |-> "AF_INET", address |-> << "10.0.0.1", "4711" >>],
      [family |-> "AF_UNIX", address |-> << "/tmp/sock" >>],
      [family |-> "None", address |-> << "10.0.0.1", "4711" >>],
      [family |-> "AF_INET6", address |-> << >>] }

\* netutil.is_valid_ip on the strings of this model.
is_valid_ip(ip) == ip \in {"10.0.0.1", "0.0.0.0", "1.2.3.4", "5.6.7.8", "9.9.9.9"}

\* The X- headers of a request.
XHeaders ==
    [X_Forwarded_For : {Missing, "1.2.3.4, 5.6.7.8", "bogus"},
     X_Real_Ip : {Missing, "9.9.9.9", ""},
     X_Scheme : {Missing, "https", "ftp"},
     X_Forwarded_Proto : {Missing, "http"}]

_HTTPRequestContext(socket, protocol, ssl) ==
    LET remote_ip ==
            IF socket.family \in {"AF_INET", "AF_INET6"} /\ socket.address # << >>
            THEN socket.address[1] ELSE "0.0.0.0"
        proto == IF Truthy(protocol) THEN protocol
                 ELSE IF ssl THEN "https" ELSE "http"
    IN  [made |-> TRUE, address |-> socket.address,
         address_family |-> socket.family,
         remote_ip |-> remote_ip, protocol |-> proto,
         _orig_remote_ip |-> remote_ip, _orig_protocol |-> proto]

_apply_xheaders(c, headers) ==
    LET ip0 == headers_get(headers.X_Forwarded_For, c.remote_ip)
        ip1 == strip(split(ip0)[Len(split(ip0))])
        ip == headers_get(headers.X_Real_Ip, ip1)
        c1 == IF is_valid_ip(ip) THEN [c EXCEPT !.remote_ip = ip] ELSE c
        proto_header ==
            headers_get(headers.X_Scheme,
                        headers_get(headers.X_Forwarded_Proto, c1.protocol))
    IN  IF proto_header \in {"http", "https"}
        THEN [c1 EXCEPT !.protocol = proto_header]
        ELSE c1

\* _unapply_xheaders that puts back the address only.
_unapply_xheaders_of_ip(c) == [c EXCEPT !.remote_ip = c._orig_remote_ip]

_unapply_xheaders(c) ==
    [c EXCEPT !.remote_ip = c._orig_remote_ip, !.protocol = c._orig_protocol]

_cleanup(c) == IF xheaders THEN _unapply_xheaders(c) ELSE c

\* _ServerRequestAdapter.headers_received, and what HTTPServerRequest takes
\* from the context when it is made.
adapter_headers_received(c, headers) ==
    IF xheaders THEN _apply_xheaders(c, headers) ELSE c

HTTPServerRequest(c, headers) ==
    [headers |-> headers, remote_ip |-> c.remote_ip, protocol |-> c.protocol]

ContextCommit(c, state) ==
    /\ context' = c
    /\ serving' = state
    /\ UNCHANGED << xheaders, conn_vars, lock_vars, loop_vars, client_vars,
                    handler_vars, digest_vars >>

InitContext ==
    /\ NoDigests
    /\ NoConnection
    /\ NoLocks
    /\ NoLoopback
    /\ NoClients
    /\ NoHandler
    /\ \E socket \in Sockets, protocol \in {"", "https"}, ssl \in BOOLEAN :
          context = _HTTPRequestContext(socket, protocol, ssl)
    /\ xheaders \in BOOLEAN
    /\ serving = "idle"
    /\ seen = << >>

\* The headers of the next request on the connection have been read.
RequestHeaders ==
    /\ serving = "idle"
    /\ \E headers \in XHeaders :
          LET c == adapter_headers_received(context, headers)
          IN  /\ ContextCommit(c, "request")
              /\ seen' = << HTTPServerRequest(c, headers) >>
                            \o SubSeq(seen, 1, IF seen = << >> THEN 0 ELSE 1)

\* The body has been read: finish() calls the delegate, which may raise, and
\* then _cleanup(); the connection is kept alive or not.
RequestFinish ==
    /\ serving = "request"
    /\ \/ \E keep_alive \in BOOLEAN :
             ContextCommit(_cleanup(context),
                           IF keep_alive THEN "idle" ELSE "closed")
       \/ ContextCommit(context, "failed")
    /\ UNCHANGED seen

\* The connection closed before the request was read to its end.
RequestOnConnectionClose ==
    /\ serving = "request"
    /\ \/ ContextCommit(_cleanup(context), "closed")
       \/ ContextCommit(context, "failed")
    /\ UNCHANGED seen

NextContext ==
    \/ RequestHeaders
    \/ RequestFinish
    \/ RequestOnConnectionClose

ContextSpec == InitContext /\ [][NextContext]_vars

====
